---- MODULE Spec2Model ----
(***************************************************************************)
(* A model of go-cache-archive: a persistent, fixed-record, disk-backed    *)
(* ring buffer (RingBufferCache).  Files are byte sequences, slots are     *)
(* CRC-32 + payload, the constructor, Write, Read, BulkWrite, BulkRead,    *)
(* WriteHead, Flush and Close are translated from the Go source.           *)
(***************************************************************************)
EXTENDS Integers, Sequences, FiniteSets, TLC

(***************************************************************************)
(* Bytes and CRC-32 (IEEE).  A 32-bit word is kept as its four             *)
(* little-endian bytes, which is also how the slot stores it               *)
(* (binary.LittleEndian.PutUint32).                                        *)
(***************************************************************************)

\* The bit of weight m in the exclusive or of two bytes.
XorBit(a, b, m) == m * ((((a \div m) % 2) + ((b \div m) % 2)) % 2)

\* Bitwise exclusive or of two bytes.
Xor8(a, b) ==
    XorBit(a, b, 1) + XorBit(a, b, 2) + XorBit(a, b, 4) + XorBit(a, b, 8)
        + XorBit(a, b, 16) + XorBit(a, b, 32) + XorBit(a, b, 64) + XorBit(a, b, 128)

\* Exclusive or of two 32-bit words given as four little-endian bytes.
XorWord(v, w) ==
    <<Xor8(v[1], w[1]), Xor8(v[2], w[2]), Xor8(v[3], w[3]), Xor8(v[4], w[4])>>

\* The reflected IEEE polynomial 0xEDB88320, little-endian bytes.
IEEEPoly == <<32, 131, 184, 237>>

\* A 32-bit word shifted right by one bit.
ShiftRight1(w) ==
    <<(w[1] \div 2) + 128 * (w[2] % 2), (w[2] \div 2) + 128 * (w[3] % 2),
      (w[3] \div 2) + 128 * (w[4] % 2), w[4] \div 2>>

\* A 32-bit word shifted right by eight bits.
ShiftRight8(w) == <<w[2], w[3], w[4], 0>>

\* One round of the table construction: shift, xor the polynomial on carry.
CrcRound(w) ==
    IF w[1] % 2 = 1 THEN XorWord(IEEEPoly, ShiftRight1(w)) ELSE ShiftRight1(w)

\* One entry of the CRC table: eight rounds from the byte's value.
CrcEntry(n) ==
    CrcRound(CrcRound(CrcRound(CrcRound(
        CrcRound(CrcRound(CrcRound(CrcRound(<<n, 0, 0, 0>>))))))))

\* crc32.IEEETable, entry n at index n + 1.
RECURSIVE tableRange(_, _)
tableRange(lo, hi) ==
    IF lo = hi THEN <<CrcEntry(lo)>>
    ELSE tableRange(lo, (lo + hi) \div 2) \o tableRange(((lo + hi) \div 2) + 1, hi)

IEEETable == tableRange(0, 255)

\* The table-driven update of the running value w with one byte.
CrcByte(w, b) == XorWord(IEEETable[Xor8(w[1], b) + 1], ShiftRight8(w))

\* The update over the bytes p[i..], from running value w (each intermediate
\* value is computed once and then bound).
RECURSIVE CrcUpdate(_, _, _)
CrcUpdate(w, p, i) ==
    IF i > Len(p) THEN w
    ELSE CrcUpdate(CHOOSE r \in {CrcByte(x, p[i]) : x \in {w}} : TRUE, p, i + 1)

AllOnes == <<255, 255, 255, 255>>

\* crc32.ChecksumIEEE(payload), as the four bytes PutUint32 stores.
ChecksumIEEE(p) == XorWord(CrcUpdate(AllOnes, p, 1), AllOnes)

(***************************************************************************)
(* The state.  The disk holds the shard files, the .cfg descriptor and     *)
(* the .meta sidecar; the engine object exists between the constructor     *)
(* and Close.                                                              *)
(***************************************************************************)
VARIABLES
    files,       \* path index -> the file's bytes (<<>>: absent or empty)
    cfgFile,     \* the .cfg descriptor, or NoFile
    metaFile,    \* the .meta sidecar's bytes, or NoFile
    dirty,       \* paths written since their last fsync / msync
    status,      \* "open", "closed" or "panicked" (the process died in a panic)
    c,           \* the RingBufferCache object (NoCache when there is none)
    head,        \* c.head
    tail,        \* c.tail
    statHits,    \* c.statHits
    statMisses,  \* c.statMisses
    wh,          \* the WriteHead call in progress: its position and locals
    res,         \* what the last completed call returned
    ops,         \* number of steps taken (bounds the exploration)
    written,     \* history: id -> payload of the last successful Write to it
    sess,        \* history: ids written in this session and untouched since
    corrupted,   \* history: ids of sess with one payload byte changed on disk
    flushed,     \* history: no Write since the last Flush of this session
    bulk,        \* history: the last successful BulkWrite, no write since
    prevRet,     \* history: what precedes the next WriteHead's id
    whCount,     \* history: completed WriteHead calls since the store was fresh
    savedHT,     \* history: <<head, tail>> right after the last flushed WriteHead
    procs,       \* goroutine -> the Write or Read it is in: position and locals
    locks,       \* c.locks: stripe -> the writer holding it and its readers
    tally,       \* history: the Reads that returned a payload, and that failed
    prefetchMap, \* c.prefetchMap: the ids marked as being prefetched
    bg,          \* the background goroutines: prefetch loops and their fetches
    syscalls,    \* the system calls the last Flush or Close issued, in order
    closedHT     \* history: head, tail and the calls made when Close was called

vars == <<files, cfgFile, metaFile, dirty, status, c, head, tail, statHits,
          statMisses, wh, res, ops, written, sess, corrupted, flushed, bulk,
          prevRet, whCount, savedHT, procs, locks, tally, prefetchMap, bg,
          syscalls, closedHT>>

concVars == <<procs, locks, tally>>

auxVars == <<prefetchMap, bg, syscalls, closedHT>>

\* statHits and statMisses are uint64 and wrap around; the model keeps them
\* modulo CounterModulus, more than the callers of any run here add up to:
\* only Reads that go on for ever in the background wrap them.
CounterModulus == 16

\* n successive atomic.AddUint64(&counter, 1)
statAddN(v, n) == (v + n) % CounterModulus

\* shard.mmap == nil
NoMmap == -1

\* A .cfg that does not exist.
NoCfg == [exists |-> FALSE, RecordSize |-> 0, MinIDAlloc |-> 0, MaxIDAlloc |-> 0,
          ShardCount |-> 0]

\* No engine object (before the constructor, after Close).
NoCache == [shards |-> <<>>, size |-> 0, record |-> 0, diskRec |-> 0,
            options |-> [MinIDAlloc |-> 0, MaxIDAlloc |-> 0, UseMmap |-> FALSE,
                         ShardCount |-> 0, RecordSize |-> 0,
                         PrefetchSize |-> 0],
            minIDAlloc |-> 0, maxIDAlloc |-> 0]

Max2(a, b) == IF a > b THEN a ELSE b

(***************************************************************************)
(* Files.                                                                  *)
(***************************************************************************)

\* n zero bytes.
RECURSIVE Zeros(_)
Zeros(n) == IF n <= 0 THEN <<>> ELSE <<0>> \o Zeros(n - 1)

\* f.Truncate(n): cut, or extend with zero bytes.
Truncate(f, n) == IF n <= Len(f) THEN SubSeq(f, 1, n) ELSE f \o Zeros(n - Len(f))

\* f.WriteAt(buf, off): overwrite, extending the file when it is too short.
WriteAt(f, buf, off) ==
    SubSeq(Truncate(f, Max2(Len(f), off)), 1, off) \o buf
        \o SubSeq(f, off + Len(buf) + 1, Len(f))

\* binary.LittleEndian.PutUint64: the n low bytes of v, least significant first.
RECURSIVE PutUintLE(_, _)
PutUintLE(v, n) == IF n = 0 THEN <<>> ELSE <<v % 256>> \o PutUintLE(v \div 256, n - 1)

\* binary.LittleEndian.Uint64
RECURSIVE UintLE(_)
UintLE(b) == IF b = <<>> THEN 0 ELSE Head(b) + 256 * UintLE(Tail(b))

\* saveMeta: head at bytes 0..7, tail at bytes 8..15.
saveMeta(h, t) == PutUintLE(h, 8) \o PutUintLE(t, 8)

\* loadMeta: an error when the file is absent or shorter than 16 bytes.
loadMeta(m) ==
    IF Len(m) < 16 THEN [err |-> TRUE, head |-> 0, tail |-> 0]
    ELSE [err |-> FALSE, head |-> UintLE(SubSeq(m, 1, 8)),
          tail |-> UintLE(SubSeq(m, 9, 16))]

(***************************************************************************)
(* The constructor.                                                        *)
(***************************************************************************)

newPersistedConfig(opts) ==
    [exists |-> TRUE, RecordSize |-> opts.RecordSize, MinIDAlloc |-> opts.MinIDAlloc,
     MaxIDAlloc |-> opts.MaxIDAlloc, ShardCount |-> opts.ShardCount]

\* verifyOrWriteConfig: writes the descriptor when there is none, otherwise
\* overrides the four layout options with the persisted ones.
verifyOrWriteConfig(cfg, opts) ==
    IF ~cfg.exists
    THEN [file |-> newPersistedConfig(opts), opts |-> opts]
    ELSE [file |-> cfg,
          opts |-> [opts EXCEPT !.RecordSize = cfg.RecordSize,
                                !.MinIDAlloc = cfg.MinIDAlloc,
                                !.MaxIDAlloc = cfg.MaxIDAlloc,
                                !.ShardCount = cfg.ShardCount]]

\* A default shard size that is not rounded up.
shardSizeOf_Floor(size, shardCount) ==
    IF shardCount > 1 THEN size \div shardCount ELSE size

\* The default shard size: the whole range, or ceil(size / ShardCount).
shardSizeOf(size, shardCount) ==
    IF shardCount > 1
    THEN (size \div shardCount) + (IF size % shardCount # 0 THEN 1 ELSE 0)
    ELSE size

\* The shard's path: 0 is basePath, i + 1 is basePath.i
shardPath(i, shardCount) == IF shardCount > 1 THEN i + 1 ELSE 0

\* The shard loop of the constructor, from shard i on.
RECURSIVE initShards(_, _, _, _, _, _, _, _)
initShards(i, offset, shards, fs, size, shardSize, diskRec, opts) ==
    IF i >= opts.ShardCount THEN [err |-> "ok", shards |-> shards, files |-> fs]
    ELSE
      LET currentShardSize ==
              IF i = opts.ShardCount - 1 THEN size - offset ELSE shardSize
          path == shardPath(i, opts.ShardCount)
          diskSize == currentShardSize * diskRec
      IN  IF diskSize < 0
          THEN [err |-> "Truncate", shards |-> shards, files |-> fs]
          ELSE
            LET fs2 == [fs EXCEPT ![path] = Truncate(fs[path], diskSize)]
                s == [size |-> currentShardSize, offset |-> offset, path |-> path,
                      mmap |-> IF opts.UseMmap THEN diskSize ELSE NoMmap]
            IN  IF opts.UseMmap /\ diskSize = 0
                THEN [err |-> "Mmap", shards |-> shards, files |-> fs2]
                ELSE initShards(i + 1, offset + currentShardSize,
                                Append(shards, s), fs2, size, shardSize,
                                diskRec, opts)

\* The head and tail of a store with no usable .meta.
freshHead(minIDAlloc) == (IF minIDAlloc = 0 THEN 1 ELSE minIDAlloc) - 1
freshTail(minIDAlloc) == IF minIDAlloc = 0 THEN 1 ELSE minIDAlloc

\* NewRingBufferCacheWithOptions on the disk (fs, cfg, meta) with the caller's
\* options: the error, the disk afterwards and the object.
NewRingBufferCacheWithOptions(fs, cfg, meta, callerOpts) ==
    IF callerOpts.RecordSize <= 0 \/ callerOpts.MaxIDAlloc <= callerOpts.MinIDAlloc
    THEN [err |-> "Invalid", files |-> fs, cfg |-> cfg, cache |-> NoCache,
          head |-> 0, tail |-> 0, fresh |-> FALSE]
    ELSE
      LET size == callerOpts.MaxIDAlloc - callerOpts.MinIDAlloc + 1
          recordSize == callerOpts.RecordSize
          diskRec == recordSize + 4
          opts0 == IF callerOpts.ShardCount <= 0
                   THEN [callerOpts EXCEPT !.ShardCount = 1] ELSE callerOpts
          shardSize == shardSizeOf(size, opts0.ShardCount)
          v == verifyOrWriteConfig(cfg, opts0)
          opts == v.opts
          b == initShards(0, 0, <<>>, fs, size, shardSize, diskRec, opts)
          m == loadMeta(meta)
      IN  IF b.err # "ok"
          THEN [err |-> b.err, files |-> b.files, cfg |-> v.file, cache |-> NoCache,
                head |-> 0, tail |-> 0, fresh |-> FALSE]
          ELSE [err |-> "ok", files |-> b.files, cfg |-> v.file,
                cache |-> [shards |-> b.shards, size |-> size, record |-> recordSize,
                           diskRec |-> diskRec, options |-> opts,
                           minIDAlloc |-> opts.MinIDAlloc,
                           maxIDAlloc |-> opts.MaxIDAlloc],
                head |-> IF m.err THEN freshHead(opts.MinIDAlloc) ELSE m.head,
                tail |-> IF m.err THEN freshTail(opts.MinIDAlloc) ELSE m.tail,
                fresh |-> m.err]

(***************************************************************************)
(* The data path.                                                          *)
(***************************************************************************)

\* An absToRel that moves an id outside the range to the first position.
absToRel_Clamp(cache, id) ==
    IF id < cache.minIDAlloc \/ id > cache.maxIDAlloc
    THEN [err |-> "ok", rel |-> 1]
    ELSE [err |-> "ok", rel |-> id - cache.minIDAlloc + 1]

\* absToRel: the 1-based relative position of an absolute id.
absToRel(cache, id) ==
    IF id < cache.minIDAlloc \/ id > cache.maxIDAlloc
    THEN [err |-> "OutOfRange", rel |-> 0]
    ELSE [err |-> "ok", rel |-> id - cache.minIDAlloc + 1]

\* A findShard whose intervals start one position early.
findShard_Early(cache, id) ==
    IF id < 1 \/ id > cache.size
    THEN [err |-> "OutOfRange", idx |-> 0, slot |-> 0]
    ELSE
      LET found == {k \in 1..Len(cache.shards) :
                       /\ id >= cache.shards[k].offset
                       /\ id < cache.shards[k].offset + cache.shards[k].size}
      IN  IF found = {}
          THEN [err |-> "NotFound", idx |-> 0, slot |-> 0]
          ELSE LET k == CHOOSE x \in found : \A y \in found : x <= y
               IN  [err |-> "ok", idx |-> k, slot |-> id - cache.shards[k].offset]

\* findShard: the index of the first shard whose interval holds the position.
findShard(cache, id) ==
    IF id < 1 \/ id > cache.size
    THEN [err |-> "OutOfRange", idx |-> 0, slot |-> 0]
    ELSE
      LET found == {k \in 1..Len(cache.shards) :
                       /\ id > cache.shards[k].offset
                       /\ id <= cache.shards[k].offset + cache.shards[k].size}
      IN  IF found = {}
          THEN [err |-> "NotFound", idx |-> 0, slot |-> 0]
          ELSE LET k == CHOOSE x \in found : \A y \in found : x <= y
               IN  [err |-> "ok", idx |-> k, slot |-> id - cache.shards[k].offset]

\* The slot buffer Write fills: the checksum, then the payload.
encodeSlot(payload) == ChecksumIEEE(payload) \o payload

\* The byte offset Write uses.
writeOffset(cache, relID) == (relID - 1) * cache.diskRec

\* A Read that takes its offset from the slot within the shard.
readOffset_InShard(cache, relID) == (findShard(cache, relID).slot - 1) * cache.diskRec

\* The byte offset Read uses.
readOffset(cache, relID) == (relID - 1) * cache.diskRec

\* The access a call made: the routed shard's index, slot count and slot
\* size, the slot findShard returned and the byte offset used.
Access(cache, f, offset) ==
    [shard |-> f.idx, off |-> offset, slot |-> f.slot,
     size |-> cache.shards[f.idx].size, rec |-> cache.diskRec]

\* No shard was accessed.
NoAccess == [shard |-> 0, off |-> 0, slot |-> 0, size |-> 0, rec |-> 0]

\* Write(id, payload, flush) on the files fs with unsynced paths d.
Write(cache, fs, d, id, payload, flush) ==
    LET a == absToRel(cache, id)
        f == findShard(cache, a.rel)
        sh == cache.shards[f.idx]
        offset == writeOffset(cache, a.rel)
        buf == encodeSlot(payload)
        acc == Access(cache, f, offset)
        done == [err |-> "ok",
                 files |-> [fs EXCEPT ![sh.path] = WriteAt(@, buf, offset)],
                 dirty |-> IF flush THEN d \ {sh.path} ELSE d \cup {sh.path},
                 acc |-> acc]
    IN  IF a.err # "ok"
        THEN [err |-> a.err, files |-> fs, dirty |-> d, acc |-> NoAccess]
        ELSE IF Len(payload) # cache.record
        THEN [err |-> "PayloadSize", files |-> fs, dirty |-> d, acc |-> NoAccess]
        ELSE IF f.err # "ok"
        THEN [err |-> f.err, files |-> fs, dirty |-> d, acc |-> NoAccess]
        ELSE IF sh.mmap # NoMmap /\ offset + cache.diskRec > sh.mmap
        THEN \* shard.mmap[offset:offset+diskRec]: slice bounds out of range
             [err |-> "panic", files |-> fs, dirty |-> d, acc |-> acc]
        ELSE done

\* A Read that does not verify the checksum.
checksumOK_Skip(buf) == TRUE

\* The check of the stored checksum against the payload's.
checksumOK(buf) == ChecksumIEEE(SubSeq(buf, 5, Len(buf))) = SubSeq(buf, 1, 4)

\* Read(id) on the files fs: the error, the payload and the counter it bumps.
Read(cache, fs, id) ==
    LET a == absToRel(cache, id)
        f == findShard(cache, a.rel)
        sh == cache.shards[f.idx]
        offset == readOffset(cache, a.rel)
        acc == Access(cache, f, offset)
        buf == SubSeq(fs[sh.path], offset + 1, offset + cache.diskRec)
    IN  IF a.err # "ok"
        THEN [err |-> a.err, val |-> <<>>, acc |-> NoAccess, hit |-> 0, miss |-> 0]
        ELSE IF f.err # "ok"
        THEN [err |-> f.err, val |-> <<>>, acc |-> NoAccess, hit |-> 0, miss |-> 0]
        ELSE IF sh.mmap # NoMmap /\ offset + cache.diskRec > sh.mmap
        THEN [err |-> "panic", val |-> <<>>, acc |-> acc, hit |-> 0, miss |-> 0]
        ELSE IF sh.mmap = NoMmap /\ offset + cache.diskRec > Len(fs[sh.path])
        THEN \* ReadAt past the end of the file
             [err |-> "IO", val |-> <<>>, acc |-> acc, hit |-> 0, miss |-> 1]
        ELSE IF ~checksumOK(buf)
        THEN [err |-> "CorruptSlot", val |-> <<>>, acc |-> acc, hit |-> 0, miss |-> 1]
        ELSE [err |-> "ok", val |-> SubSeq(buf, 5, Len(buf)), acc |-> acc,
              hit |-> 1, miss |-> 0]

\* The write loop of BulkWrite from element i on: the error, the disk and the
\* number of elements written.
RECURSIVE bulkWriteLoop(_, _, _, _, _, _, _)
bulkWriteLoop(cache, fs, d, startID, payloads, flush, i) ==
    IF i > Len(payloads)
    THEN [err |-> "ok", files |-> fs, dirty |-> d, n |-> i - 1]
    ELSE CHOOSE out \in
           {IF r.err # "ok"
            THEN [err |-> r.err, files |-> r.files, dirty |-> r.dirty, n |-> i - 1]
            ELSE bulkWriteLoop(cache, r.files, r.dirty, startID, payloads, flush, i + 1)
              : r \in {Write(cache, fs, d, startID + i - 1, payloads[i],
                             flush /\ i = Len(payloads))}} : TRUE

\* The range check of BulkWrite and BulkRead.
bulkOutOfBounds(cache, startID, n) == startID < 1 \/ startID + n - 1 > cache.size

\* BulkWrite(startID, payloads, flush).
BulkWrite(cache, fs, d, startID, payloads, flush) ==
    IF bulkOutOfBounds(cache, startID, Len(payloads))
    THEN [err |-> "OutOfRange", files |-> fs, dirty |-> d, n |-> 0]
    ELSE IF \E i \in 1..Len(payloads) : Len(payloads[i]) # cache.record
    THEN [err |-> "PayloadSize", files |-> fs, dirty |-> d, n |-> 0]
    ELSE bulkWriteLoop(cache, fs, d, startID, payloads, flush, 1)

\* A read loop that hands back an empty list when an element fails.
RECURSIVE bulkReadLoop_Drop(_, _, _, _, _, _, _, _)
bulkReadLoop_Drop(cache, fs, startID, count, i, got, hits, misses) ==
    IF i > count
    THEN [err |-> "ok", val |-> got, hit |-> hits, miss |-> misses]
    ELSE CHOOSE out \in
           {IF r.err # "ok"
            THEN [err |-> r.err, val |-> [k \in 1..count |-> <<>>],
                  hit |-> hits + r.hit, miss |-> misses + r.miss]
            ELSE bulkReadLoop_Drop(cache, fs, startID, count, i + 1,
                                   [got EXCEPT ![i] = r.val], hits + r.hit,
                                   misses + r.miss)
              : r \in {Read(cache, fs, startID + i - 1)}} : TRUE

\* The read loop of BulkRead from element i on; got holds the elements read so
\* far, the remaining ones stay nil (<<>>).
RECURSIVE bulkReadLoop(_, _, _, _, _, _, _, _)
bulkReadLoop(cache, fs, startID, count, i, got, hits, misses) ==
    IF i > count
    THEN [err |-> "ok", val |-> got, hit |-> hits, miss |-> misses]
    ELSE CHOOSE out \in
           {IF r.err # "ok"
            THEN [err |-> r.err, val |-> got, hit |-> hits + r.hit,
                  miss |-> misses + r.miss]
            ELSE bulkReadLoop(cache, fs, startID, count, i + 1,
                              [got EXCEPT ![i] = r.val], hits + r.hit,
                              misses + r.miss)
              : r \in {Read(cache, fs, startID + i - 1)}} : TRUE

\* BulkRead(startID, count).
BulkRead(cache, fs, startID, count) ==
    IF bulkOutOfBounds(cache, startID, count)
    THEN [err |-> "OutOfRange", val |-> <<>>, hit |-> 0, miss |-> 0]
    ELSE bulkReadLoop(cache, fs, startID, count, 1, [k \in 1..count |-> <<>>], 0, 0)

(***************************************************************************)
(* Head and tail.                                                          *)
(***************************************************************************)

\* The upper bound WriteHead wraps at.
headMax(cache) == IF cache.maxIDAlloc = 0 THEN cache.size ELSE cache.maxIDAlloc

\* A tail that follows the head without wrapping at max.
tailAfter_NoWrap(nextID, oldTail, min, max) ==
    IF nextID = min THEN min + 1
    ELSE IF oldTail # min THEN nextID + 1
    ELSE oldTail

\* The tail WriteHead leaves for the id it is about to write.
tailAfter(nextID, oldTail, min, max) ==
    IF nextID = min THEN min + 1
    ELSE IF oldTail # min THEN (IF nextID + 1 > max THEN min ELSE nextID + 1)
    ELSE oldTail

(***************************************************************************)
(* Bounds and inputs.                                                      *)
(***************************************************************************)

\* The number of calls explored in one behaviour of Spec.
MaxOps == 3

\* The number of calls explored in one behaviour of SpecLife.
MaxLifeOps == 5

\* The ids callers pass (in and out of every layout's range).
IDs == 0..5

\* The payloads callers pass (one and two bytes long).
Payloads == {<<7>>, <<200>>, <<7, 200>>}

NoPayloads == [i \in IDs |-> <<>>]

\* The goroutines that call Write and Read concurrently.
Procs == {1, 2}

\* The ids the concurrent callers pass: outside the range, in the first shard
\* and in the last.
ConcIDs == {0, 1, 3}

\* lock(id): the stripe of an id.
lockOf(id) == id % 256

\* A goroutine that is in no call (ticket, a history field: the position of
\* its WriteHead among the calls made).
IdleProc == [pc |-> "idle", op |-> "none", id |-> 0, payload |-> <<>>,
             flush |-> FALSE, buf |-> <<>>, allowed |-> {}, pre |-> FALSE,
             err |-> "ok", val |-> <<>>, ticket |-> 0]

NoProcs == [p \in Procs |-> IdleProc]

\* Every stripe free.
NoLocks == [l \in {lockOf(id) : id \in ConcIDs} |-> [writer |-> 0, readers |-> {}]]

NoTally == [ok |-> 0, failed |-> 0]

\* Close has not been called.
NoClose == [head |-> 0, tail |-> 0, calls |-> 0, flushed |-> FALSE]

\* No WriteHead in progress (head0, tail0, history fields: the head and the
\* tail when the call began).
Idle == [pc |-> "idle", nextID |-> 0, payload |-> <<>>, flush |-> FALSE,
         head0 |-> 0, tail0 |-> 0]

\* No BulkWrite to remember.
NoBulk == [start |-> 0, payloads |-> <<>>, flush |-> FALSE]

NoPrev == [kind |-> "none", id |-> 0]

Result(op, id, err, val, acc) ==
    [op |-> op, id |-> id, err |-> err, val |-> val, acc |-> acc, prev |-> prevRet]

diskVars == <<files, cfgFile, metaFile, dirty>>
engineVars == <<status, c, head, tail, statHits, statMisses, wh>>
headHist == <<prevRet, whCount, savedHT>>
dataHist == <<written, sess, corrupted, flushed, bulk>>

\* The initial state: an empty directory, then the constructor with options o.
InitWith(o) ==
    \E r \in {NewRingBufferCacheWithOptions([p \in 0..2 |-> <<>>], NoCfg, <<>>, o)} :
        /\ files = r.files
        /\ cfgFile = r.cfg
        /\ metaFile = <<>>
        /\ dirty = {}
        /\ status = IF r.err = "ok" THEN "open" ELSE "closed"
        /\ c = r.cache
        /\ head = r.head
        /\ tail = r.tail
        /\ statHits = 0
        /\ statMisses = 0
        /\ wh = Idle
        /\ res = [op |-> "Open", id |-> 0, err |-> r.err, val |-> <<>>,
                  acc |-> NoAccess, prev |-> NoPrev]
        /\ ops = 0
        /\ written = NoPayloads
        /\ sess = {}
        /\ corrupted = {}
        /\ flushed = TRUE
        /\ bulk = NoBulk
        /\ prevRet = [kind |-> "fresh", id |-> 0]
        /\ whCount = 0
        /\ savedHT = <<>>
        /\ procs = NoProcs
        /\ locks = NoLocks
        /\ tally = NoTally
        /\ prefetchMap = {}
        /\ bg = <<>>
        /\ syscalls = <<>>
        /\ closedHT = NoClose

\* A call may start: the store is open and no WriteHead is in progress.
Ready == status = "open" /\ wh.pc = "idle"

\* The process dies in a panic: the object is gone, the files stay.
Panicked(r) ==
    /\ status' = "panicked"
    /\ c' = NoCache
    /\ head' = 0
    /\ tail' = 0
    /\ statHits' = 0
    /\ statMisses' = 0
    /\ wh' = Idle
    /\ res' = r
    /\ written' = NoPayloads
    /\ sess' = {}
    /\ corrupted' = {}
    /\ flushed' = FALSE
    /\ bulk' = NoBulk
    /\ prevRet' = [kind |-> "broken", id |-> 0]
    /\ UNCHANGED <<diskVars, whCount, savedHT>>

\* NewRingBufferCacheWithOptions(basePath, o) on the disk as it is.
Open(o) ==
    /\ status # "open"
    /\ ops' = ops + 1
    /\ UNCHANGED <<concVars, auxVars>>
    /\ \E r \in {NewRingBufferCacheWithOptions(files, cfgFile, metaFile, o)} :
           /\ files' = r.files
           /\ cfgFile' = r.cfg
           /\ status' = IF r.err = "ok" THEN "open" ELSE "closed"
           /\ c' = r.cache
           /\ head' = r.head
           /\ tail' = r.tail
           /\ res' = Result("Open", 0, r.err, <<>>, NoAccess)
           /\ prevRet' = IF r.err # "ok" THEN [kind |-> "broken", id |-> 0]
                         ELSE IF r.fresh THEN [kind |-> "fresh", id |-> 0]
                         ELSE [kind |-> "resumed", id |-> r.head]
           /\ whCount' = IF r.err = "ok" /\ r.fresh THEN 0 ELSE whCount
    /\ statHits' = 0
    /\ statMisses' = 0
    /\ sess' = {}
    /\ corrupted' = {}
    /\ flushed' = TRUE
    /\ bulk' = NoBulk
    /\ UNCHANGED <<metaFile, dirty, wh, written, savedHT>>

\* No error kept so far by a Flush or Close loop.
NoErr == [err |-> "ok", shard |-> 0]

\* A Flush loop that returns at the first shard whose sync fails.
RECURSIVE flushLoop_Stop(_, _, _, _, _, _)
flushLoop_Stop(cc, failing, i, firstErr, calls, dirt) ==
    IF i >= Len(cc.shards) \/ firstErr.err # "ok"
    THEN [err |-> firstErr, calls |-> calls, dirty |-> dirt]
    ELSE LET s == cc.shards[i + 1]
             failed == i \in failing
         IN  flushLoop_Stop(cc, failing, i + 1,
                 IF failed THEN [err |-> "Sync", shard |-> i] ELSE firstErr,
                 Append(calls, [op |-> IF s.mmap # NoMmap THEN "msync" ELSE "fsync",
                                shard |-> i, failed |-> failed]),
                 IF failed THEN dirt ELSE dirt \ {s.path})

\* The loop of Flush from shard i on: Msync or Sync, the first error is kept.
\* failing: the shards whose sync the system fails.
RECURSIVE flushLoop(_, _, _, _, _, _)
flushLoop(cc, failing, i, firstErr, calls, dirt) ==
    IF i >= Len(cc.shards)
    THEN [err |-> firstErr, calls |-> calls, dirty |-> dirt]
    ELSE LET s == cc.shards[i + 1]
             failed == i \in failing
         IN  flushLoop(cc, failing, i + 1,
                 IF failed /\ firstErr.err = "ok"
                 THEN [err |-> "Sync", shard |-> i] ELSE firstErr,
                 Append(calls, [op |-> IF s.mmap # NoMmap THEN "msync" ELSE "fsync",
                                shard |-> i, failed |-> failed]),
                 IF failed THEN dirt ELSE dirt \ {s.path})

\* The loop of Close from shard i on: Munmap of a mapped shard, then the
\* file's Close; the first error is kept.
RECURSIVE closeLoop(_, _, _, _, _, _)
closeLoop(cc, failUnmap, failClose, i, firstErr, calls) ==
    IF i >= Len(cc.shards)
    THEN [err |-> firstErr, calls |-> calls]
    ELSE LET s == cc.shards[i + 1]
             unmapFailed == s.mmap # NoMmap /\ i \in failUnmap
             closeFailed == i \in failClose
             e1 == IF unmapFailed /\ firstErr.err = "ok"
                   THEN [err |-> "Unmap", shard |-> i] ELSE firstErr
             e2 == IF closeFailed /\ e1.err = "ok"
                   THEN [err |-> "CloseFile", shard |-> i] ELSE e1
             calls1 == IF s.mmap # NoMmap
                       THEN Append(calls, [op |-> "munmap", shard |-> i,
                                           failed |-> unmapFailed])
                       ELSE calls
         IN  closeLoop(cc, failUnmap, failClose, i + 1, e2,
                       Append(calls1, [op |-> "close", shard |-> i,
                                       failed |-> closeFailed]))

\* Close(), the system failing the Munmap of the shards in failUnmap and the
\* file Close of those in failClose.
CloseCall(failUnmap, failClose) ==
    /\ Ready
    /\ ops' = ops + 1
    /\ UNCHANGED <<concVars, prefetchMap, bg>>
    /\ closedHT' = [head |-> head, tail |-> tail, calls |-> whCount,
                     flushed |-> flushed]
    /\ \E r \in {closeLoop(c, failUnmap, failClose, 0, NoErr, <<>>)} :
           /\ syscalls' = r.calls
           /\ res' = Result("Close", r.err.shard, r.err.err, <<>>, NoAccess)
    /\ status' = "closed"
    /\ c' = NoCache
    /\ head' = 0
    /\ tail' = 0
    /\ statHits' = 0
    /\ statMisses' = 0
    /\ written' = IF flushed THEN written ELSE NoPayloads
    /\ sess' = {}
    /\ corrupted' = {}
    /\ bulk' = NoBulk
    /\ prevRet' = [kind |-> "broken", id |-> 0]
    /\ UNCHANGED <<diskVars, wh, flushed, whCount, savedHT>>

\* Close() with no system call failing.
Close == CloseCall({}, {})

\* Flush(): msync / fsync every shard, the system failing the sync of the
\* shards in failing.
FlushCall(failing) ==
    /\ Ready
    /\ ops' = ops + 1
    /\ UNCHANGED <<concVars, prefetchMap, bg, closedHT>>
    /\ \E r \in {flushLoop(c, failing, 0, NoErr, <<>>, dirty)} :
           /\ syscalls' = r.calls
           /\ dirty' = r.dirty
           /\ flushed' = (r.err.err = "ok")
           /\ res' = Result("Flush", r.err.shard, r.err.err, <<>>, NoAccess)
    /\ UNCHANGED <<files, cfgFile, metaFile, engineVars, headHist,
                   written, sess, corrupted, bulk>>

\* Flush() with no system call failing.
Flush == FlushCall({})

\* A caller's Write(id, payload, flush).
WriteCall(id, payload, flush) ==
    /\ Ready
    /\ ops' = ops + 1
    /\ UNCHANGED <<concVars, auxVars>>
    /\ \E r \in {Write(c, files, dirty, id, payload, flush)} :
       LET rr == Result("Write", id, r.err, payload, r.acc)
       IN  IF r.err = "panic" THEN Panicked(rr)
           ELSE /\ files' = r.files
                /\ dirty' = r.dirty
                /\ res' = rr
                /\ IF r.err = "ok"
                   THEN /\ written' = [written EXCEPT ![id] = payload]
                        /\ sess' = sess \cup {id}
                        /\ corrupted' = corrupted \ {id}
                        /\ flushed' = FALSE
                        /\ bulk' = NoBulk
                   ELSE UNCHANGED dataHist
                /\ UNCHANGED <<cfgFile, metaFile, engineVars, headHist>>

\* The goroutine started by `go c.prefetch(shard, relID)` in a successful
\* Read(id): at the top of its loop, i = 1.
prefetchOf(cc, id) ==
    LET rel == absToRel(cc, id).rel
        s == cc.shards[findShard(cc, rel).idx]
    IN  [kind |-> "loop", pc |-> "load", offset |-> s.offset, size |-> s.size,
         relID |-> rel, i |-> 1, id |-> 0, origin |-> id]

\* The goroutine started by `go func(fetchID)` in prefetch.
fetchOf(id, origin) ==
    [kind |-> "fetch", pc |-> "read", offset |-> 0, size |-> 0, relID |-> 0,
     i |-> 0, id |-> id, origin |-> origin]

\* prefetch's loop test and its break, which read the goroutine's locals
\* only: i <= PrefetchSize fails, or nextID > s.size.
loopDone(cc, g) == g.i > cc.options.PrefetchSize \/ g.relID + g.i > g.size

\* The end of a successful Read(id): if c.options.PrefetchSize > 0 { go ... }.
\* A loop that ends before its first Load touches nothing shared and is
\* not kept.
startPrefetch(b, cc, id) ==
    IF cc.options.PrefetchSize > 0 /\ ~loopDone(cc, prefetchOf(cc, id))
    THEN Append(b, prefetchOf(cc, id))
    ELSE b

\* The goroutines without the k-th, which has returned.
RemoveAt(b, k) == SubSeq(b, 1, k - 1) \o SubSeq(b, k + 1, Len(b))

\* The k-th goroutine's i++, and its return when the loop ends there.
loopStep(b, cc, k) ==
    LET g == [b[k] EXCEPT !.pc = "load", !.i = @ + 1]
    IN  IF loopDone(cc, g) THEN RemoveAt(b, k) ELSE [b EXCEPT ![k] = g]

\* A caller's Read(id).
ReadCall(id) ==
    /\ Ready
    /\ ops' = ops + 1
    /\ UNCHANGED <<concVars, prefetchMap, syscalls, closedHT>>
    /\ \E r \in {Read(c, files, id)} :
       LET rr == Result("Read", id, r.err, r.val, r.acc)
       IN  IF r.err = "panic" THEN Panicked(rr) /\ bg' = <<>>
           ELSE /\ statHits' = statAddN(statHits, r.hit)
                /\ statMisses' = statAddN(statMisses, r.miss)
                /\ res' = rr
                /\ bg' = IF r.err = "ok" THEN startPrefetch(bg, c, id) ELSE bg
                /\ UNCHANGED <<diskVars, status, c, head, tail, wh, headHist,
                               dataHist>>

\* A caller's BulkWrite(startID, payloads, flush).
BulkWriteCall(startID, payloads, flush) ==
    /\ Ready
    /\ ops' = ops + 1
    /\ UNCHANGED <<concVars, auxVars>>
    /\ \E r \in {BulkWrite(c, files, dirty, startID, payloads, flush)} :
       LET rr == Result("BulkWrite", startID, r.err, payloads, NoAccess)
           done == {startID + i - 1 : i \in 1..r.n}
       IN  IF r.err = "panic" THEN Panicked(rr)
           ELSE /\ files' = r.files
                /\ dirty' = r.dirty
                /\ res' = rr
                /\ written' = [id \in IDs |->
                                 IF id \in done THEN payloads[id - startID + 1]
                                 ELSE written[id]]
                /\ sess' = sess \cup done
                /\ corrupted' = corrupted \ done
                /\ flushed' = (flushed /\ done = {})
                /\ bulk' = IF r.err = "ok"
                           THEN [start |-> startID, payloads |-> payloads,
                                 flush |-> flush]
                           ELSE IF done = {} THEN bulk
                           ELSE NoBulk
                /\ UNCHANGED <<cfgFile, metaFile, engineVars, headHist>>

\* A caller's BulkRead(startID, count).
BulkReadCall(startID, count) ==
    /\ Ready
    /\ ops' = ops + 1
    /\ UNCHANGED <<concVars, prefetchMap, syscalls, closedHT>>
    /\ \E r \in {BulkRead(c, files, startID, count)} :
       LET rr == Result("BulkRead", startID, r.err, r.val, NoAccess)
       IN  IF r.err = "panic" THEN Panicked(rr) /\ bg' = <<>>
           ELSE /\ statHits' = statAddN(statHits, r.hit)
                /\ statMisses' = statAddN(statMisses, r.miss)
                /\ res' = rr
                /\ bg' = IF c.options.PrefetchSize > 0
                          THEN bg \o [j \in 1..r.hit |->
                                         prefetchOf(c, startID + j - 1)]
                          ELSE bg
                /\ UNCHANGED <<diskVars, status, c, head, tail, wh, headHist,
                               dataHist>>

\* The disk changes under the store: payload byte k of the slot of a written
\* id becomes b.
Corrupt(id, k, b) ==
    /\ Ready
    /\ id \in sess \ corrupted
    /\ k \in 1..c.record
    /\ LET rel == absToRel(c, id).rel
           path == c.shards[findShard(c, rel).idx].path
           at == writeOffset(c, rel) + 4 + k
       IN  /\ files[path][at] # b
           /\ files' = [files EXCEPT ![path][at] = b]
    /\ ops' = ops + 1
    /\ UNCHANGED <<concVars, auxVars>>
    /\ corrupted' = corrupted \cup {id}
    /\ res' = Result("Corrupt", id, "ok", <<>>, NoAccess)
    /\ UNCHANGED <<cfgFile, metaFile, dirty, engineVars, headHist, written, sess,
                   flushed, bulk>>

\* WriteHead(payload, flush), first step: nextID := atomic.AddUint64(&c.head, 1).
WriteHeadAdd(payload, flush) ==
    /\ Ready
    /\ ops' = ops + 1
    /\ UNCHANGED <<concVars, auxVars>>
    /\ head' = head + 1
    /\ wh' = [pc |-> "added", nextID |-> head + 1, payload |-> payload,
              flush |-> flush, head0 |-> head, tail0 |-> tail]
    /\ UNCHANGED <<diskVars, status, c, tail, statHits, statMisses, res, headHist,
                   dataHist>>

\* WriteHead, wrap detection: past max, head and nextID are reset to min.
WriteHeadWrap ==
    /\ status = "open"
    /\ wh.pc = "added"
    /\ UNCHANGED <<concVars, auxVars>>
    /\ IF wh.nextID > headMax(c)
       THEN /\ head' = c.minIDAlloc
            /\ wh' = [wh EXCEPT !.pc = "wrapped", !.nextID = c.minIDAlloc]
       ELSE /\ head' = head
            /\ wh' = [wh EXCEPT !.pc = "wrapped"]
    /\ UNCHANGED <<diskVars, status, c, tail, statHits, statMisses, res, ops,
                   headHist, dataHist>>

\* WriteHead, tail tracking.
WriteHeadTail ==
    /\ status = "open"
    /\ wh.pc = "wrapped"
    /\ UNCHANGED <<concVars, auxVars>>
    /\ tail' = tailAfter(wh.nextID, tail, c.minIDAlloc, headMax(c))
    /\ wh' = [wh EXCEPT !.pc = "tailed"]
    /\ UNCHANGED <<diskVars, status, c, head, statHits, statMisses, res, ops,
                   headHist, dataHist>>

\* WriteHead, last step: the Write at nextID, the sidecar when flush is set,
\* and the return.
WriteHeadFinish ==
    /\ status = "open"
    /\ wh.pc = "tailed"
    /\ UNCHANGED <<concVars, auxVars>>
    /\ \E r \in {Write(c, files, dirty, wh.nextID, wh.payload, wh.flush)} :
       LET rr == Result("WriteHead", IF r.err = "ok" THEN wh.nextID ELSE 0, r.err,
                        wh.payload, r.acc)
       IN  IF r.err = "panic" THEN Panicked(rr)
           ELSE /\ files' = r.files
                /\ dirty' = r.dirty
                /\ res' = rr
                /\ wh' = Idle
                /\ whCount' = whCount + 1
                /\ IF r.err = "ok"
                   THEN /\ metaFile' = IF wh.flush THEN saveMeta(head, tail)
                                       ELSE metaFile
                        /\ savedHT' = IF wh.flush THEN <<head, tail>> ELSE savedHT
                        /\ prevRet' = [kind |-> "prev", id |-> wh.nextID]
                        /\ written' = [written EXCEPT ![wh.nextID] = wh.payload]
                        /\ sess' = sess \cup {wh.nextID}
                        /\ corrupted' = corrupted \ {wh.nextID}
                        /\ flushed' = FALSE
                        /\ bulk' = NoBulk
                   ELSE /\ prevRet' = [kind |-> "broken", id |-> 0]
                        /\ UNCHANGED <<metaFile, savedHT, dataHist>>
                /\ UNCHANGED <<cfgFile, status, c, head, tail, statHits,
                               statMisses>>
    /\ UNCHANGED ops

(***************************************************************************)
(* Spec: single Writes and Reads on a freshly created store, over layouts  *)
(* with one and two shards, MinID 0, 1 and 3, with and without mmap.       *)
(***************************************************************************)

Opt(rs, min, max, sc, mm) ==
    [MinIDAlloc |-> min, MaxIDAlloc |-> max, UseMmap |-> mm, ShardCount |-> sc,
     RecordSize |-> rs, PrefetchSize |-> 0]

IOOpts == {Opt(1, 1, 3, 2, mm) : mm \in BOOLEAN}
          \cup {Opt(1, 0, 2, 1, mm) : mm \in BOOLEAN}
          \cup {Opt(2, 3, 5, 2, mm) : mm \in BOOLEAN}

Init == \E o \in IOOpts : InitWith(o)

IOWrite ==
    /\ ops < MaxOps
    /\ \E id \in IDs, p \in Payloads, fl \in BOOLEAN : WriteCall(id, p, fl)

IORead == ops < MaxOps /\ \E id \in IDs : ReadCall(id)

Next == IOWrite \/ IORead

Spec == Init /\ [][Next]_vars

(***************************************************************************)
(* SpecLife: the life cycle.  A store is created, written, read, flushed,  *)
(* closed and reopened with the layout it was created with (mmap on or     *)
(* off).                                                                   *)
(***************************************************************************)

LifeOpts == {Opt(1, 1, 3, 2, mm) : mm \in BOOLEAN}
            \cup {Opt(1, 0, 2, 1, mm) : mm \in BOOLEAN}
            \cup {Opt(2, 1, 2, 1, mm) : mm \in BOOLEAN}

LifeIDs == 0..3

InitLife == \E o \in LifeOpts : InitWith(o)

LifeOpen ==
    /\ ops < MaxLifeOps
    /\ \E o \in LifeOpts : newPersistedConfig(o) = cfgFile /\ Open(o)

LifeClose == ops < MaxLifeOps /\ Close

LifeFlush == ops < MaxLifeOps /\ Flush

LifeWrite ==
    /\ ops < MaxLifeOps
    /\ \E id \in LifeIDs, p \in Payloads, fl \in BOOLEAN : WriteCall(id, p, fl)

LifeRead == ops < MaxLifeOps /\ \E id \in LifeIDs : ReadCall(id)

NextLife == LifeOpen \/ LifeClose \/ LifeFlush \/ LifeWrite \/ LifeRead

SpecLife == InitLife /\ [][NextLife]_vars

(***************************************************************************)
(* SpecBulk: BulkWrite and BulkRead on a freshly created store, with the   *)
(* range starting at MinID 1 and at MinID 3.                               *)
(***************************************************************************)

\* The number of calls explored in one behaviour of SpecBulk.
MaxBulkOps == 3

\* The longest payload list and the largest count passed.
MaxBulkLen == 2

BulkOpts == {Opt(1, 1, 3, 1, mm) : mm \in BOOLEAN}
            \cup {Opt(1, 3, 5, 1, mm) : mm \in BOOLEAN}
            \cup {Opt(1, 1, 3, 2, FALSE)}

BulkPayloads == {<<7>>, <<200>>}

PayloadLists == UNION {[1..n -> BulkPayloads] : n \in 0..MaxBulkLen}

InitBulk == \E o \in BulkOpts : InitWith(o)

BulkWriteStep ==
    /\ ops < MaxBulkOps
    /\ \E id \in IDs, ps \in PayloadLists, fl \in BOOLEAN : BulkWriteCall(id, ps, fl)

BulkReadStep ==
    /\ ops < MaxBulkOps
    /\ \E id \in IDs, n \in 0..MaxBulkLen : BulkReadCall(id, n)

NextBulk == BulkWriteStep \/ BulkReadStep

SpecBulk == InitBulk /\ [][NextBulk]_vars

(***************************************************************************)
(* SpecCorrupt: Writes and Reads of two-byte records while single payload  *)
(* bytes of written slots change on disk.                                  *)
(***************************************************************************)

\* The number of steps explored in one behaviour of SpecCorrupt.
MaxCorruptOps == 3

CorruptOpts == {Opt(2, 1, 3, 1, mm) : mm \in BOOLEAN}
               \cup {Opt(2, 3, 5, 2, FALSE)}

CorruptPayloads == {<<7, 200>>, <<0, 0>>}

\* The values a changed byte takes.
CorruptBytes == {0, 1, 7, 200, 255}

InitCorrupt == \E o \in CorruptOpts : InitWith(o)

CorruptWrite ==
    /\ ops < MaxCorruptOps
    /\ \E id \in IDs, p \in CorruptPayloads, fl \in BOOLEAN : WriteCall(id, p, fl)

CorruptByte ==
    /\ ops < MaxCorruptOps
    /\ \E id \in IDs, k \in 1..2, b \in CorruptBytes : Corrupt(id, k, b)

CorruptRead == ops < MaxCorruptOps /\ \E id \in IDs : ReadCall(id)

NextCorrupt == CorruptWrite \/ CorruptByte \/ CorruptRead

SpecCorrupt == InitCorrupt /\ [][NextCorrupt]_vars

(***************************************************************************)
(* SpecHead: a single producer calling WriteHead, step by step, on stores  *)
(* with MinID 0, 1 and 3, one and two shards; the store is closed and      *)
(* reopened with the layout it was created with.                           *)
(***************************************************************************)

\* The number of calls explored in one behaviour of SpecHead.
MaxHeadOps == 6

HeadOpts == {Opt(1, 1, 2, 1, FALSE), Opt(1, 0, 2, 1, FALSE), Opt(1, 3, 5, 1, TRUE)}
            \cup {Opt(1, 1, 3, 2, mm) : mm \in BOOLEAN}

HeadPayloads == {<<7>>}

InitHead == \E o \in HeadOpts : InitWith(o)

HeadAdd ==
    /\ ops < MaxHeadOps
    /\ \E p \in HeadPayloads, fl \in BOOLEAN : WriteHeadAdd(p, fl)

HeadClose == ops < MaxHeadOps /\ Close

HeadOpen ==
    /\ ops < MaxHeadOps
    /\ \E o \in HeadOpts : newPersistedConfig(o) = cfgFile /\ Open(o)

NextHead ==
    HeadAdd \/ WriteHeadWrap \/ WriteHeadTail \/ WriteHeadFinish \/ HeadClose
        \/ HeadOpen

SpecHead == InitHead /\ [][NextHead]_vars

(***************************************************************************)
(* Concurrent callers.  Each goroutine runs Write or Read step by step:    *)
(* the checks, the stripe lock, the copy of the slot, the return.  Write   *)
(* stores the checksum bytes and the payload bytes of the slot in two      *)
(* steps, since neither copy() into a mapping nor WriteAt is atomic for a  *)
(* concurrent reader of the same bytes.                                    *)
(***************************************************************************)

\* m.Lock() may proceed without waiting.
canLock_Always(l) == TRUE

\* m.Lock() may proceed: nobody holds the stripe.
canLock(l) == l.writer = 0 /\ l.readers = {}

\* m.RLock() may proceed without waiting.
canRLock_Always(l) == TRUE

\* m.RLock() may proceed: no writer holds the stripe.
canRLock(l) == l.writer = 0

\* m.Unlock() by goroutine p.
Unlock(l, p) == [l EXCEPT !.writer = 0]

\* A return that leaves the stripe read-locked.
RUnlock_Leak(l, p) == l

\* m.RUnlock() by goroutine p.
RUnlock(l, p) == [l EXCEPT !.readers = @ \ {p}]

\* A counter update that is lost.
statAdd_Lost(v) == v

\* atomic.AddUint64(&counter, 1)
statAdd(v) == (v + 1) % CounterModulus

\* The process dies in a panic while goroutines are in calls.
ConcPanicked(r) ==
    /\ Panicked(r)
    /\ procs' = NoProcs
    /\ locks' = NoLocks
    /\ UNCHANGED tally

\* The writes to id that have started and not returned.
WritersOf(id) ==
    {q \in Procs : procs[q].op = "Write" /\ procs[q].pc # "idle" /\ procs[q].id = id}

\* Goroutine p calls Write(id, payload, flush): absToRel, the length test and
\* findShard.
ConcWriteBegin(p, id, payload, flush) ==
    /\ status = "open"
    /\ wh.pc = "idle"
    /\ procs[p].pc = "idle"
    /\ UNCHANGED auxVars
    /\ ops' = ops + 1
    /\ LET a == absToRel(c, id)
           f == findShard(c, a.rel)
           err == IF a.err # "ok" THEN a.err
                  ELSE IF Len(payload) # c.record THEN "PayloadSize"
                  ELSE f.err
           me == [IdleProc EXCEPT !.op = "Write", !.id = id, !.payload = payload,
                                  !.flush = flush, !.err = err]
       IN  IF err # "ok"
           THEN /\ procs' = [procs EXCEPT ![p] = me]
                /\ res' = Result("Write", id, err, payload, NoAccess)
           ELSE /\ procs' =
                      [q \in Procs |->
                          IF q = p THEN [me EXCEPT !.pc = "wlock"]
                          ELSE IF /\ procs[q].op = "Read"
                                  /\ procs[q].pc # "idle"
                                  /\ procs[q].id = id
                          THEN [procs[q] EXCEPT !.allowed = @ \cup {payload}]
                          ELSE procs[q]]
                /\ res' = res
    /\ UNCHANGED <<diskVars, engineVars, headHist, dataHist, locks, tally>>

\* m.Lock()
ConcWriteLock(p) ==
    /\ procs[p].pc = "wlock"
    /\ UNCHANGED auxVars
    /\ canLock(locks[lockOf(procs[p].id)])
    /\ locks' = [locks EXCEPT ![lockOf(procs[p].id)].writer = p]
    /\ procs' = [procs EXCEPT ![p].pc = "wcrc"]
    /\ UNCHANGED <<diskVars, engineVars, headHist, dataHist, res, ops, tally>>

\* The slot buffer is filled and its checksum bytes reach the shard.
ConcWriteCrc(p) ==
    /\ procs[p].pc = "wcrc"
    /\ UNCHANGED auxVars
    /\ LET rel == absToRel(c, procs[p].id).rel
           f == findShard(c, rel)
           sh == c.shards[f.idx]
           offset == writeOffset(c, rel)
       IN  \E buf \in {encodeSlot(procs[p].payload)} :
           IF sh.mmap # NoMmap /\ offset + c.diskRec > sh.mmap
           THEN /\ ConcPanicked(Result("Write", procs[p].id, "panic",
                                       procs[p].payload, Access(c, f, offset)))
                /\ UNCHANGED ops
           ELSE /\ files' = [files EXCEPT
                               ![sh.path] = WriteAt(@, SubSeq(buf, 1, 4), offset)]
                /\ procs' = [procs EXCEPT ![p].pc = "wpayload", ![p].buf = buf]
                /\ UNCHANGED <<cfgFile, metaFile, dirty, engineVars, headHist,
                               dataHist, res, ops, locks, tally>>

\* The payload bytes of the slot reach the shard.
ConcWritePayload(p) ==
    /\ procs[p].pc = "wpayload"
    /\ UNCHANGED auxVars
    /\ LET rel == absToRel(c, procs[p].id).rel
           sh == c.shards[findShard(c, rel).idx]
           buf == procs[p].buf
       IN  files' = [files EXCEPT
                       ![sh.path] = WriteAt(@, SubSeq(buf, 5, Len(buf)),
                                            writeOffset(c, rel) + 4)]
    /\ procs' = [procs EXCEPT ![p].pc = "wunlock"]
    /\ UNCHANGED <<cfgFile, metaFile, dirty, engineVars, headHist, dataHist, res,
                   ops, locks, tally>>

\* Msync / Sync when flush is set, m.Unlock() and the return.
ConcWriteReturn(p) ==
    /\ procs[p].pc = "wunlock"
    /\ UNCHANGED auxVars
    /\ LET id == procs[p].id
           rel == absToRel(c, id).rel
           f == findShard(c, rel)
           path == c.shards[f.idx].path
       IN  /\ dirty' = IF procs[p].flush THEN dirty \ {path} ELSE dirty \cup {path}
           /\ locks' = [locks EXCEPT ![lockOf(id)] = Unlock(@, p)]
           /\ res' = Result("Write", id, "ok", procs[p].payload,
                            Access(c, f, writeOffset(c, rel)))
           /\ written' = [written EXCEPT ![id] = procs[p].payload]
           /\ sess' = sess \cup {id}
           /\ corrupted' = corrupted \ {id}
    /\ procs' = [procs EXCEPT ![p].pc = "idle", ![p].buf = <<>>]
    /\ flushed' = FALSE
    /\ bulk' = NoBulk
    /\ UNCHANGED <<files, cfgFile, metaFile, engineVars, headHist, ops, tally>>

\* Goroutine p calls Read(id): absToRel and findShard.
ConcReadBegin(p, id) ==
    /\ status = "open"
    /\ wh.pc = "idle"
    /\ procs[p].pc = "idle"
    /\ UNCHANGED auxVars
    /\ ops' = ops + 1
    /\ LET a == absToRel(c, id)
           f == findShard(c, a.rel)
           err == IF a.err # "ok" THEN a.err ELSE f.err
           me == [IdleProc EXCEPT !.op = "Read", !.id = id, !.err = err]
       IN  IF err # "ok"
           THEN /\ procs' = [procs EXCEPT ![p] = me]
                /\ res' = Result("Read", id, err, <<>>, NoAccess)
           ELSE /\ procs' = [procs EXCEPT ![p] =
                               [me EXCEPT
                                  !.pc = "rlock",
                                  !.pre = (written[id] # <<>>),
                                  !.allowed = {written[id]} \cup
                                      {procs[q].payload : q \in WritersOf(id)}]]
                /\ res' = res
    /\ UNCHANGED <<diskVars, engineVars, headHist, dataHist, locks, tally>>

\* m.RLock()
ConcReadLock(p) ==
    /\ procs[p].pc = "rlock"
    /\ UNCHANGED auxVars
    /\ canRLock(locks[lockOf(procs[p].id)])
    /\ locks' = [locks EXCEPT ![lockOf(procs[p].id)].readers = @ \cup {p}]
    /\ procs' = [procs EXCEPT ![p].pc = "rcopy"]
    /\ UNCHANGED <<diskVars, engineVars, headHist, dataHist, res, ops, tally>>

\* The slot is copied out of the mapping, or read with ReadAt; a failed
\* ReadAt counts a miss and returns.
ConcReadCopy(p) ==
    /\ procs[p].pc = "rcopy"
    /\ UNCHANGED auxVars
    /\ LET id == procs[p].id
           rel == absToRel(c, id).rel
           f == findShard(c, rel)
           sh == c.shards[f.idx]
           offset == readOffset(c, rel)
           acc == Access(c, f, offset)
       IN  IF sh.mmap # NoMmap /\ offset + c.diskRec > sh.mmap
           THEN ConcPanicked(Result("Read", id, "panic", <<>>, acc))
           ELSE IF offset + c.diskRec > Len(files[sh.path])
           THEN /\ statMisses' = statAdd(statMisses)
                /\ tally' = [tally EXCEPT !.failed = @ + 1]
                /\ locks' = [locks EXCEPT ![lockOf(id)] = RUnlock(@, p)]
                /\ procs' = [procs EXCEPT ![p].pc = "idle", ![p].err = "IO"]
                /\ res' = Result("Read", id, "IO", <<>>, acc)
                /\ UNCHANGED <<diskVars, status, c, head, tail, statHits, wh,
                               headHist, dataHist>>
           ELSE /\ procs' = [procs EXCEPT
                               ![p].pc = "rcheck",
                               ![p].buf = SubSeq(files[sh.path], offset + 1,
                                                 offset + c.diskRec)]
                /\ UNCHANGED <<diskVars, engineVars, headHist, dataHist, res,
                               locks, tally>>
    /\ UNCHANGED ops

\* The checksum test, the counter, m.RUnlock() and the return.
ConcReadReturn(p) ==
    /\ procs[p].pc = "rcheck"
    /\ UNCHANGED <<prefetchMap, syscalls, closedHT>>
    /\ LET id == procs[p].id
           rel == absToRel(c, id).rel
           acc == Access(c, findShard(c, rel), readOffset(c, rel))
           buf == procs[p].buf
       IN  \E good \in {checksumOK(buf)} :
           LET val == IF good THEN SubSeq(buf, 5, Len(buf)) ELSE <<>>
               err == IF good THEN "ok" ELSE "CorruptSlot"
           IN  /\ statHits' = IF good THEN statAdd(statHits) ELSE statHits
               /\ statMisses' = IF good THEN statMisses ELSE statAdd(statMisses)
               /\ tally' = IF good THEN [tally EXCEPT !.ok = @ + 1]
                           ELSE [tally EXCEPT !.failed = @ + 1]
               /\ locks' = [locks EXCEPT ![lockOf(id)] = RUnlock(@, p)]
               /\ procs' = [procs EXCEPT ![p].pc = "idle", ![p].err = err,
                                         ![p].val = val]
               /\ res' = Result("Read", id, err, val, acc)
               /\ bg' = IF good THEN startPrefetch(bg, c, id) ELSE bg
    /\ UNCHANGED <<diskVars, status, c, head, tail, wh, headHist, dataHist, ops>>

(***************************************************************************)
(* SpecConc: two goroutines calling Write and Read on the same store.      *)
(***************************************************************************)

\* The number of calls explored in one behaviour of SpecConc.
MaxConcOps == 3

ConcOpts == {Opt(1, 1, 3, 2, FALSE), Opt(1, 1, 3, 1, TRUE), Opt(1, 1, 3, 2, TRUE)}

ConcPayloads == {<<7>>, <<200>>}

InitConc == \E o \in ConcOpts : InitWith(o)

ConcWrite ==
    /\ ops < MaxConcOps
    /\ \E p \in Procs, id \in ConcIDs, pl \in ConcPayloads, fl \in BOOLEAN :
           ConcWriteBegin(p, id, pl, fl)

ConcRead == ops < MaxConcOps /\ \E p \in Procs, id \in ConcIDs : ConcReadBegin(p, id)

ConcWLock == \E p \in Procs : ConcWriteLock(p)

ConcWCrc == \E p \in Procs : ConcWriteCrc(p)

ConcWPayload == \E p \in Procs : ConcWritePayload(p)

ConcWReturn == \E p \in Procs : ConcWriteReturn(p)

ConcRLock == \E p \in Procs : ConcReadLock(p)

ConcRCopy == \E p \in Procs : ConcReadCopy(p)

ConcRReturn == \E p \in Procs : ConcReadReturn(p)

NextConc ==
    ConcWrite \/ ConcRead \/ ConcWLock \/ ConcWCrc \/ ConcWPayload \/ ConcWReturn
        \/ ConcRLock \/ ConcRCopy \/ ConcRReturn

SpecConc == InitConc /\ [][NextConc]_vars

(***************************************************************************)
(* SpecBulkErr: BulkWrite and BulkRead with requests that fail: ranges     *)
(* past the end, payloads of the wrong length, unwritten slots.            *)
(***************************************************************************)

\* The number of calls explored in one behaviour of SpecBulkErr.
MaxBulkErrOps == 3

BulkErrOpts ==
    {Opt(1, 0, 1, 1, FALSE), Opt(1, 1, 3, 2, FALSE)}
        \cup {Opt(1, 1, 3, 1, mm) : mm \in BOOLEAN}

BulkErrIDs == 0..3

\* Payload lists of well-sized payloads, and the same lists ending in a
\* payload of the wrong length.
BulkErrLists ==
    {[i \in 1..n |-> IF i = n THEN last ELSE <<7>>] :
        n \in 1..MaxBulkLen, last \in {<<7>>, <<7, 200>>}}

InitBulkErr == \E o \in BulkErrOpts : InitWith(o)

BulkErrWrite ==
    /\ ops < MaxBulkErrOps
    /\ \E id \in BulkErrIDs, ps \in BulkErrLists : BulkWriteCall(id, ps, FALSE)

BulkErrRead ==
    /\ ops < MaxBulkErrOps
    /\ \E id \in BulkErrIDs, n \in 1..MaxBulkLen : BulkReadCall(id, n)

NextBulkErr == BulkErrWrite \/ BulkErrRead

SpecBulkErr == InitBulkErr /\ [][NextBulkErr]_vars

(***************************************************************************)
(* WriteHead called by several goroutines: the atomic operations on head   *)
(* and tail of one call interleave with those of the others.               *)
(***************************************************************************)

\* Goroutine p calls WriteHead(payload, flush):
\* nextID := atomic.AddUint64(&c.head, 1).
ConcWriteHeadAdd(p, payload, flush) ==
    /\ status = "open"
    /\ wh.pc = "idle"
    /\ procs[p].pc = "idle"
    /\ ops' = ops + 1
    /\ head' = head + 1
    /\ procs' = [procs EXCEPT ![p] =
                    [IdleProc EXCEPT !.pc = "hadded", !.op = "WriteHead",
                                     !.id = head + 1, !.payload = payload,
                                     !.flush = flush, !.ticket = ops + 1]]
    /\ UNCHANGED <<diskVars, status, c, tail, statHits, statMisses, wh, res,
                   headHist, dataHist, locks, tally, auxVars>>

\* Wrap detection of goroutine p's call: past max, head and nextID are reset
\* to min.
ConcWriteHeadWrap(p) ==
    /\ status = "open"
    /\ procs[p].pc = "hadded"
    /\ IF procs[p].id > headMax(c)
       THEN /\ head' = c.minIDAlloc
            /\ procs' = [procs EXCEPT ![p].pc = "hwrapped", ![p].id = c.minIDAlloc]
       ELSE /\ head' = head
            /\ procs' = [procs EXCEPT ![p].pc = "hwrapped"]
    /\ UNCHANGED <<diskVars, status, c, tail, statHits, statMisses, wh, res, ops,
                   headHist, dataHist, locks, tally, auxVars>>

\* Tail tracking of goroutine p's call.
ConcWriteHeadTail(p) ==
    /\ status = "open"
    /\ procs[p].pc = "hwrapped"
    /\ tail' = tailAfter(procs[p].id, tail, c.minIDAlloc, headMax(c))
    /\ procs' = [procs EXCEPT ![p].pc = "htailed"]
    /\ UNCHANGED <<diskVars, status, c, head, statHits, statMisses, wh, res, ops,
                   headHist, dataHist, locks, tally, auxVars>>

\* The Write at nextID of goroutine p's call (under the slot's lock), the
\* sidecar when flush is set, and the return.
ConcWriteHeadFinish(p) ==
    /\ status = "open"
    /\ procs[p].pc = "htailed"
    /\ \E r \in {Write(c, files, dirty, procs[p].id, procs[p].payload,
                       procs[p].flush)} :
       LET me == procs[p]
           rr == Result("WriteHead", IF r.err = "ok" THEN me.id ELSE 0, r.err,
                        me.payload, r.acc)
       IN  IF r.err = "panic" THEN ConcPanicked(rr) /\ UNCHANGED auxVars
           ELSE /\ files' = r.files
                /\ dirty' = r.dirty
                /\ res' = rr
                /\ procs' = [procs EXCEPT ![p].pc = "idle", ![p].err = r.err]
                /\ whCount' = whCount + 1
                /\ IF r.err = "ok"
                   THEN /\ metaFile' = IF me.flush THEN saveMeta(head, tail)
                                       ELSE metaFile
                        /\ savedHT' = IF me.flush THEN <<head, tail>> ELSE savedHT
                        /\ prevRet' = [kind |-> "prev", id |-> me.id]
                        /\ written' = [written EXCEPT ![me.id] = me.payload]
                        /\ sess' = sess \cup {me.id}
                        /\ corrupted' = corrupted \ {me.id}
                        /\ flushed' = FALSE
                        /\ bulk' = NoBulk
                   ELSE /\ prevRet' = [kind |-> "broken", id |-> 0]
                        /\ UNCHANGED <<metaFile, savedHT, dataHist>>
                /\ UNCHANGED <<cfgFile, status, c, head, tail, statHits,
                               statMisses, wh, locks, tally, auxVars>>
    /\ UNCHANGED ops

(***************************************************************************)
(* SpecHeadConc: two goroutines call WriteHead on rings of two and three   *)
(* slots.                                                                  *)
(***************************************************************************)

MaxHeadConcOps == 4

HeadConcOpts == {Opt(1, 1, 2, 1, FALSE), Opt(1, 1, 3, 1, TRUE)}

HeadConcPayloads == {<<7>>, <<9>>}

InitHeadConc == \E o \in HeadConcOpts : InitWith(o)

HeadConcAdd ==
    /\ ops < MaxHeadConcOps
    /\ \E p \in Procs, payload \in HeadConcPayloads, flush \in BOOLEAN :
           ConcWriteHeadAdd(p, payload, flush)

HeadConcWrap == \E p \in Procs : ConcWriteHeadWrap(p)

HeadConcTail == \E p \in Procs : ConcWriteHeadTail(p)

HeadConcFinish == \E p \in Procs : ConcWriteHeadFinish(p)

NextHeadConc == HeadConcAdd \/ HeadConcWrap \/ HeadConcTail \/ HeadConcFinish

SpecHeadConc == InitHeadConc /\ [][NextHeadConc]_vars

(***************************************************************************)
(* The background goroutines of prefetch.  Goroutine k of bg is either the *)
(* loop of prefetch(shard, relID) or one of the fetches it dispatched.     *)
(***************************************************************************)

\* prefetch, one turn of the loop up to prefetchMap.Load: it skips an id that
\* is marked.
PrefetchLoad(k) ==
    /\ status = "open"
    /\ k \in DOMAIN bg
    /\ bg[k].kind = "loop"
    /\ bg[k].pc = "load"
    /\ LET g == bg[k]
           nextID == g.relID + g.i
           id == g.offset + nextID
       IN  bg' = IF id \in prefetchMap
                 THEN loopStep(bg, c, k)
                 ELSE [bg EXCEPT ![k].pc = "store", ![k].id = id]
    /\ UNCHANGED <<diskVars, engineVars, res, ops, headHist, dataHist, concVars,
                   prefetchMap, syscalls, closedHT>>

\* prefetch, the rest of the turn: prefetchMap.Store(id, true) and
\* go func(fetchID).
PrefetchStore(k) ==
    /\ status = "open"
    /\ k \in DOMAIN bg
    /\ bg[k].kind = "loop"
    /\ bg[k].pc = "store"
    /\ prefetchMap' = prefetchMap \cup {bg[k].id}
    /\ bg' = Append(loopStep(bg, c, k), fetchOf(bg[k].id, bg[k].origin))
    /\ UNCHANGED <<diskVars, engineVars, res, ops, headHist, dataHist, concVars,
                   syscalls, closedHT>>

\* The dispatched goroutine's c.Read(fetchID); its result is dropped.
PrefetchRead(k) ==
    /\ status = "open"
    /\ k \in DOMAIN bg
    /\ bg[k].kind = "fetch"
    /\ bg[k].pc = "read"
    /\ \E r \in {Read(c, files, bg[k].id)} :
       IF r.err = "panic"
       THEN /\ Panicked(Result("Read", bg[k].id, "panic", <<>>, r.acc))
            /\ bg' = <<>>
            /\ prefetchMap' = {}
       ELSE /\ statHits' = statAddN(statHits, r.hit)
            /\ statMisses' = statAddN(statMisses, r.miss)
            /\ bg' = IF r.err = "ok"
                     THEN startPrefetch([bg EXCEPT ![k].pc = "delete"], c, bg[k].id)
                     ELSE [bg EXCEPT ![k].pc = "delete"]
            /\ UNCHANGED <<diskVars, status, c, head, tail, wh, res, headHist,
                           dataHist, prefetchMap>>
    /\ UNCHANGED <<ops, concVars, syscalls, closedHT>>

\* The dispatched goroutine's c.prefetchMap.Delete(fetchID) and its end.
PrefetchDelete(k) ==
    /\ status = "open"
    /\ k \in DOMAIN bg
    /\ bg[k].kind = "fetch"
    /\ bg[k].pc = "delete"
    /\ prefetchMap' = prefetchMap \ {bg[k].id}
    /\ bg' = RemoveAt(bg, k)
    /\ UNCHANGED <<diskVars, engineVars, res, ops, headHist, dataHist, concVars,
                   syscalls, closedHT>>

(***************************************************************************)
(* SpecPrefetch: Writes and Reads with PrefetchSize > 0, the background    *)
(* goroutines running in any order between and after the calls.            *)
(***************************************************************************)

MaxPrefetchOps == 3

OptP(rs, min, max, sc, mm, pf) ==
    [Opt(rs, min, max, sc, mm) EXCEPT !.PrefetchSize = pf]

PrefetchOpts ==
    {OptP(1, 1, 3, 1, FALSE, 1), OptP(1, 1, 3, 1, TRUE, 2),
     OptP(1, 0, 2, 2, TRUE, 1), OptP(1, 3, 5, 1, FALSE, 1)}

PrefetchIDs == {0, 1, 2, 3}

InitPrefetch == \E o \in PrefetchOpts : InitWith(o)

PfWrite ==
    /\ ops < MaxPrefetchOps
    /\ \E id \in PrefetchIDs : WriteCall(id, <<7>>, FALSE)

PfRead ==
    /\ ops < MaxPrefetchOps
    /\ \E id \in PrefetchIDs : ReadCall(id)

PfLoad == \E k \in DOMAIN bg : PrefetchLoad(k)

PfStore == \E k \in DOMAIN bg : PrefetchStore(k)

PfFetch == \E k \in DOMAIN bg : PrefetchRead(k)

PfDelete == \E k \in DOMAIN bg : PrefetchDelete(k)

NextPrefetch == PfWrite \/ PfRead \/ PfLoad \/ PfStore \/ PfFetch \/ PfDelete

SpecPrefetch == InitPrefetch /\ [][NextPrefetch]_vars

(***************************************************************************)
(* SpecResume: a single producer's WriteHead calls with and without flush, *)
(* then Flush, Close and the reopening of the store with its layout.       *)
(***************************************************************************)

MaxResumeOps == 5

ResumeOpts == {Opt(1, 1, 2, 1, FALSE), Opt(1, 1, 3, 2, FALSE), Opt(1, 3, 5, 1, TRUE)}

InitResume == \E o \in ResumeOpts : InitWith(o)

ResumeAdd ==
    /\ ops < MaxResumeOps
    /\ \E fl \in BOOLEAN : WriteHeadAdd(<<7>>, fl)

ResumeFlush == ops < MaxResumeOps /\ Flush

ResumeClose == ops < MaxResumeOps /\ Close

ResumeOpen ==
    /\ ops < MaxResumeOps
    /\ \E o \in ResumeOpts : newPersistedConfig(o) = cfgFile /\ Open(o)

NextResume ==
    ResumeAdd \/ WriteHeadWrap \/ WriteHeadTail \/ WriteHeadFinish \/ ResumeFlush
        \/ ResumeClose \/ ResumeOpen

SpecResume == InitResume /\ [][NextResume]_vars

(***************************************************************************)
(* SpecHeadErr: a single producer's WriteHead calls, some with a payload   *)
(* of the wrong length.                                                    *)
(***************************************************************************)

MaxHeadErrOps == 4

HeadErrOpts == {Opt(1, 1, 3, 1, FALSE), Opt(1, 1, 2, 1, TRUE), Opt(1, 3, 5, 2, FALSE)}

HeadErrPayloads == {<<7>>, <<9>>, <<7, 7>>}

InitHeadErr == \E o \in HeadErrOpts : InitWith(o)

HeadErrAdd ==
    /\ ops < MaxHeadErrOps
    /\ \E p \in HeadErrPayloads, fl \in BOOLEAN : WriteHeadAdd(p, fl)

NextHeadErr == HeadErrAdd \/ WriteHeadWrap \/ WriteHeadTail \/ WriteHeadFinish

SpecHeadErr == InitHeadErr /\ [][NextHeadErr]_vars

(***************************************************************************)
(* A consumer next to the producer: it loads Head() and then reads the id  *)
(* it saw, while a WriteHead may be between any two of its steps.          *)
(***************************************************************************)

\* Goroutine p calls Head(): atomic.LoadUint64(&c.head).  pre and ticket,
\* history: whether a WriteHead that has set this head is still before its
\* Write, and how many WriteHead calls had returned.
ObserveHead(p) ==
    /\ status = "open"
    /\ procs[p].pc = "idle"
    /\ ops' = ops + 1
    /\ procs' = [procs EXCEPT ![p] =
                    [IdleProc EXCEPT !.pc = "observed", !.op = "Consume",
                                     !.id = head,
                                     !.pre = (wh.pc # "idle" /\ wh.nextID = head),
                                     !.ticket = whCount]]
    /\ UNCHANGED <<diskVars, engineVars, res, headHist, dataHist, locks, tally,
                   auxVars>>

\* Goroutine p calls Read(h) with the head it saw.
ConsumerRead(p) ==
    /\ status = "open"
    /\ procs[p].pc = "observed"
    /\ \E r \in {Read(c, files, procs[p].id)} :
       LET rr == Result("Read", procs[p].id, r.err, r.val, r.acc)
       IN  IF r.err = "panic"
           THEN ConcPanicked(rr) /\ UNCHANGED auxVars
           ELSE /\ statHits' = statAddN(statHits, r.hit)
                /\ statMisses' = statAddN(statMisses, r.miss)
                /\ res' = rr
                /\ procs' = [procs EXCEPT ![p].pc = "idle", ![p].err = r.err,
                                          ![p].val = r.val]
                /\ bg' = IF r.err = "ok" THEN startPrefetch(bg, c, procs[p].id)
                         ELSE bg
                /\ UNCHANGED <<diskVars, status, c, head, tail, wh, headHist,
                               dataHist, locks, tally, prefetchMap, syscalls,
                               closedHT>>
    /\ UNCHANGED ops

(***************************************************************************)
(* SpecPublish: one producer calling WriteHead step by step and one        *)
(* consumer reading the head it observes.                                  *)
(***************************************************************************)

MaxPublishOps == 5

PublishOpts == {Opt(1, 1, 2, 1, FALSE), Opt(1, 1, 3, 1, TRUE)}

PublishPayloads == {<<7>>, <<9>>}

\* The consumer goroutine.
Consumer == CHOOSE p \in Procs : TRUE

InitPublish == \E o \in PublishOpts : InitWith(o)

PubAdd ==
    /\ ops < MaxPublishOps
    /\ \E p \in PublishPayloads : WriteHeadAdd(p, FALSE)

PubObserve == ops < MaxPublishOps /\ ObserveHead(Consumer)

PubRead == ConsumerRead(Consumer)

NextPublish ==
    PubAdd \/ WriteHeadWrap \/ WriteHeadTail \/ WriteHeadFinish \/ PubObserve
        \/ PubRead

SpecPublish == InitPublish /\ [][NextPublish]_vars

(***************************************************************************)
(* SpecFrame: Writes and BulkWrites on stores of one and two shards, each  *)
(* shard of the two-shard layout holding two slots.                        *)
(***************************************************************************)

MaxFrameOps == 3

FrameOpts == {Opt(1, 1, 3, 1, mm) : mm \in BOOLEAN}
             \cup {Opt(1, 1, 4, 2, mm) : mm \in BOOLEAN}
             \cup {Opt(1, 0, 2, 1, FALSE)}

FramePayloads == {<<7>>, <<200>>}

FrameIDs == 0..4

InitFrame == \E o \in FrameOpts : InitWith(o)

FrameWrite ==
    /\ ops < MaxFrameOps
    /\ \E id \in FrameIDs, p \in FramePayloads, fl \in BOOLEAN : WriteCall(id, p, fl)

FrameBulkWrite ==
    /\ ops < MaxFrameOps
    /\ \E id \in FrameIDs, p \in FramePayloads :
           BulkWriteCall(id, <<p, <<7>>>>, FALSE)

NextFrame == FrameWrite \/ FrameBulkWrite

SpecFrame == InitFrame /\ [][NextFrame]_vars

(***************************************************************************)
(* SpecQuiesce: a few Writes and Reads with PrefetchSize > 0, then only    *)
(* the background goroutines run.  The Go scheduler runs every runnable    *)
(* goroutine eventually: each kind of background step is weakly fair.      *)
(***************************************************************************)

MaxQuiesceOps == 2

QuiesceOpts ==
    {OptP(1, 1, 3, 1, FALSE, 2), OptP(1, 1, 3, 1, TRUE, 1),
     OptP(1, 2, 4, 1, FALSE, 1)}

QuiesceIDs == {1, 2, 3}

InitQuiesce == \E o \in QuiesceOpts : InitWith(o)

QuiesceWrite ==
    /\ ops < MaxQuiesceOps
    /\ \E id \in QuiesceIDs : WriteCall(id, <<7>>, FALSE)

QuiesceRead ==
    /\ ops < MaxQuiesceOps
    /\ \E id \in QuiesceIDs : ReadCall(id)

QuiesceLoad == \E k \in DOMAIN bg : PrefetchLoad(k)

QuiesceStore == \E k \in DOMAIN bg : PrefetchStore(k)

QuiesceFetch == \E k \in DOMAIN bg : PrefetchRead(k)

QuiesceDelete == \E k \in DOMAIN bg : PrefetchDelete(k)

NextQuiesce ==
    QuiesceWrite \/ QuiesceRead \/ QuiesceLoad \/ QuiesceStore \/ QuiesceFetch
        \/ QuiesceDelete

SpecQuiesce ==
    /\ InitQuiesce
    /\ [][NextQuiesce]_vars
    /\ WF_vars(QuiesceLoad)
    /\ WF_vars(QuiesceStore)
    /\ WF_vars(QuiesceFetch)
    /\ WF_vars(QuiesceDelete)

(***************************************************************************)
(* SpecSync: Flush and Close on stores of one to three shards, mapped or   *)
(* not, while the system fails any subset of the sync, unmap and close     *)
(* calls.                                                                  *)
(***************************************************************************)

MaxSyncOps == 3

SyncOpts == {Opt(1, 1, 3, sc, mm) : sc \in 1..3, mm \in BOOLEAN}

SyncIDs == 1..2

ShardIdx == 0..2

InitSync == \E o \in SyncOpts : InitWith(o)

SyncWrite == ops < MaxSyncOps /\ \E id \in SyncIDs : WriteCall(id, <<7>>, FALSE)

SyncFlush == ops < MaxSyncOps /\ \E failing \in SUBSET ShardIdx : FlushCall(failing)

SyncClose ==
    /\ ops < MaxSyncOps
    /\ \E failUnmap \in SUBSET ShardIdx, failClose \in SUBSET ShardIdx :
           CloseCall(failUnmap, failClose)

SyncOpen ==
    /\ ops < MaxSyncOps
    /\ \E mm \in BOOLEAN : Open(Opt(1, 1, 3, cfgFile.ShardCount, mm))

NextSync == SyncWrite \/ SyncFlush \/ SyncClose \/ SyncOpen

SpecSync == InitSync /\ [][NextSync]_vars

(***************************************************************************)
(* SpecShards: the constructor on an empty directory for every ring size   *)
(* and shard count of a small range, the router on the shards it built,    *)
(* and reopens with the layout the store was created with.                 *)
(***************************************************************************)

\* The number of calls explored in one behaviour of SpecShards.
MaxShardOps == 3

\* The largest ring (number of slots) SpecShards creates.
MaxRing == 4

\* The largest ShardCount SpecShards passes.
MaxShards == 4

ShardOpts ==
    {Opt(1, min, min + n - 1, sc, mm) :
        min \in {0, 1}, n \in 2..MaxRing, sc \in 1..MaxShards, mm \in BOOLEAN}

\* The positions handed to the router (in and out of every ring).
Rels == 0..(MaxRing + 1)

\* An empty directory and no engine object.
InitEmpty ==
    /\ files = [p \in 0..MaxShards |-> <<>>]
    /\ cfgFile = NoCfg
    /\ metaFile = <<>>
    /\ dirty = {}
    /\ status = "closed"
    /\ c = NoCache
    /\ head = 0
    /\ tail = 0
    /\ statHits = 0
    /\ statMisses = 0
    /\ wh = Idle
    /\ res = [op |-> "none", id |-> 0, err |-> "ok", val |-> <<>>,
              acc |-> NoAccess, prev |-> NoPrev]
    /\ ops = 0
    /\ written = NoPayloads
    /\ sess = {}
    /\ corrupted = {}
    /\ flushed = TRUE
    /\ bulk = NoBulk
    /\ prevRet = [kind |-> "broken", id |-> 0]
    /\ whCount = 0
    /\ savedHT = <<>>
    /\ procs = NoProcs
    /\ locks = NoLocks
    /\ tally = NoTally
    /\ prefetchMap = {}
    /\ bg = <<>>
    /\ syscalls = <<>>
    /\ closedHT = NoClose

\* The routing step of Write and Read: findShard(rel).
FindShardCall(rel) ==
    /\ Ready
    /\ ops' = ops + 1
    /\ UNCHANGED <<concVars, auxVars>>
    /\ \E f \in {findShard(c, rel)} :
           res' = Result("findShard", rel, f.err, <<>>,
                         [shard |-> f.idx, off |-> 0, slot |-> f.slot,
                          size |-> IF f.err = "ok" THEN c.shards[f.idx].size ELSE 0,
                          rec |-> c.diskRec])
    /\ UNCHANGED <<diskVars, engineVars, headHist, dataHist>>

ShardOpen ==
    /\ ops < MaxShardOps
    /\ \E o \in ShardOpts :
           /\ cfgFile.exists => newPersistedConfig(o) = cfgFile
           /\ Open(o)

ShardClose == ops < MaxShardOps /\ Close

ShardRoute == ops < MaxShardOps /\ \E rel \in Rels : FindShardCall(rel)

NextShards == ShardOpen \/ ShardClose \/ ShardRoute

SpecShards == InitEmpty /\ [][NextShards]_vars

(***************************************************************************)
(* SpecReopen: a store is created, closed and reopened with options that   *)
(* need not be the ones it was created with.                               *)
(***************************************************************************)

\* The number of calls explored in one behaviour of SpecReopen.
MaxReopenOps == 3

ReopenOpts ==
    {Opt(rs, 1, max, sc, mm) :
        rs \in {1, 2}, max \in {2, 3}, sc \in {1, 2}, mm \in BOOLEAN}

ReopenOpen == ops < MaxReopenOps /\ \E o \in ReopenOpts : Open(o)

ReopenClose == ops < MaxReopenOps /\ Close

NextReopen == ReopenOpen \/ ReopenClose

SpecReopen == InitEmpty /\ [][NextReopen]_vars

(***************************************************************************)
(* Claims.                                                                 *)
(***************************************************************************)

\* C1: a Read of an id whose last successful Write, in this session and with
\* nothing written to it since, stored p returns exactly p.
C1_WriteReadRoundTrip ==
    (res.op = "Read" /\ res.id \in sess /\ res.id \notin corrupted)
        => (res.err = "ok" /\ res.val = written[res.id])

\* C1 witness: a payload read back from the second shard of a two-shard store
\* after the id was written twice.
C1_Witness ==
    /\ res.op = "Read"
    /\ res.id \in sess
    /\ res.err = "ok"
    /\ res.val = <<200>>
    /\ res.acc.shard = 2

\* C10: every access of Write, Read and WriteHead is at the offset of the slot
\* within the routed shard, lies inside the shard, and does not fail out of
\* bounds.
C10_SlotInsideShard ==
    (res.op \in {"Write", "Read", "WriteHead"} /\ res.acc.shard # 0)
        => /\ res.acc.off = (res.acc.slot - 1) * res.acc.rec
           /\ res.acc.off + res.acc.rec <= res.acc.size * res.acc.rec
           /\ res.err # "panic"

\* The ids startID .. startID + n - 1 all lie in the store's [MinID, MaxID].
BulkIdsValid(startID, n) ==
    n >= 1 /\ cfgFile.MinIDAlloc <= startID /\ startID + n - 1 <= cfgFile.MaxIDAlloc

\* C2: a BulkWrite whose ids all lie in [MinID, MaxID] succeeds, and a BulkRead
\* of the same range right after it returns exactly the payloads, in order.
C2_BulkRoundTrip ==
    /\ (res.op = "BulkWrite" /\ BulkIdsValid(res.id, Len(res.val)))
           => res.err = "ok"
    /\ (res.op = "BulkRead" /\ bulk.payloads # <<>> /\ res.id = bulk.start
            /\ Len(res.val) = Len(bulk.payloads))
           => (res.err = "ok" /\ res.val = bulk.payloads)

\* C3: after Writes, Flush, Close and a reopen, a Read of a written id returns
\* the payload of the most recent Write to it.
C3_PersistAcrossReopen ==
    (res.op = "Read" /\ written[res.id] # <<>> /\ res.id \notin corrupted)
        => (res.err = "ok" /\ res.val = written[res.id])

\* C4: the Read that follows a single-byte change of the payload of a written
\* slot fails with CorruptSlot, returns no payload and counts one miss.
C4_CorruptionDetected ==
    [][(ops' = ops + 1 /\ res'.op = "Read" /\ res'.id \in corrupted)
          => (res'.err = "CorruptSlot" /\ res'.val = <<>>
                /\ statMisses' = statMisses + 1 /\ statHits' = statHits)]_vars

\* C4 witness: a corrupted slot of the second shard was read and rejected.
C4_Witness ==
    /\ res.op = "Read"
    /\ res.id \in corrupted
    /\ res.err = "CorruptSlot"
    /\ statMisses = 1
    /\ res.acc.shard = 2

\* The id after h in the ring of the store (MaxID is followed by MinID).
RingSucc(h) == IF h + 1 > cfgFile.MaxIDAlloc THEN cfgFile.MinIDAlloc ELSE h + 1

\* The number of slots of the store.
RingSize == cfgFile.MaxIDAlloc - cfgFile.MinIDAlloc + 1

\* C5: after every completed WriteHead from the (N+1)-th on, the tail is the
\* id after the head in the ring.
C5_TailFollowsHead ==
    (status = "open" /\ wh.pc = "idle" /\ res.op = "WriteHead"
        /\ whCount >= RingSize + 1)
        => tail = RingSucc(head)

\* C5 witness: past the first lap, the head is at MaxID and the tail wrapped to
\* MinID.
C5_Witness ==
    /\ status = "open"
    /\ wh.pc = "idle"
    /\ res.op = "WriteHead"
    /\ whCount >= RingSize + 1
    /\ head = cfgFile.MaxIDAlloc
    /\ tail = cfgFile.MinIDAlloc

\* C6: from a fresh store the successful WriteHead calls return MinID, MinID+1,
\* ..., MaxID, MinID, ... and the head is the id just returned.
C6_HeadSequence ==
    (res.op = "WriteHead" /\ res.err = "ok" /\ res.prev.kind \in {"fresh", "prev"})
        => /\ res.id = IF res.prev.kind = "fresh" THEN cfgFile.MinIDAlloc
                       ELSE RingSucc(res.prev.id)
           /\ head = res.id

\* C7: in every state of an open store, also in the middle of a WriteHead,
\* MinID-1 <= head <= MaxID and MinID <= tail <= MaxID.
C7_HeadTailBounds ==
    status = "open"
        => /\ c.minIDAlloc - 1 <= head /\ head <= c.maxIDAlloc
           /\ c.minIDAlloc <= tail /\ tail <= c.maxIDAlloc

\* C8: a store opened without a .meta sidecar has head = MinID-1, tail = MinID.
C8_FreshHeadTail ==
    (res.op = "Open" /\ res.err = "ok" /\ prevRet.kind = "fresh")
        => (head = c.minIDAlloc - 1 /\ tail = c.minIDAlloc)

\* C9: after a reopen the head and tail are the ones the last flushed WriteHead
\* left, and the next WriteHead returns the id after that head.
C9_SidecarResume ==
    /\ (res.op = "Open" /\ res.err = "ok" /\ wh.pc = "idle" /\ savedHT # <<>>)
           => (head = savedHT[1] /\ tail = savedHT[2])
    /\ (res.op = "WriteHead" /\ res.prev.kind = "resumed")
           => (res.err = "ok" /\ res.id = RingSucc(res.prev.id))

\* C11: a Write whose id is outside [MinID, MaxID] fails with OutOfRange, one
\* whose payload has the wrong length fails with PayloadSize, and neither
\* changes a file, the head, the tail or a counter.
C11_WriteErrorsKeepState ==
    [][(/\ status = "open"
        /\ ops' = ops + 1
        /\ res'.op = "Write"
        /\ \/ res'.id < c.minIDAlloc
           \/ res'.id > c.maxIDAlloc
           \/ Len(res'.val) # c.record)
       => /\ res'.err = IF res'.id < c.minIDAlloc \/ res'.id > c.maxIDAlloc
                        THEN "OutOfRange" ELSE "PayloadSize"
          /\ UNCHANGED <<files, head, tail, statHits, statMisses>>]_vars

\* C11 witness: a Write of a payload of the wrong length to a slot that holds
\* data was rejected.
C11_Witness ==
    /\ res.op = "Write"
    /\ res.err = "PayloadSize"
    /\ res.id \in sess
    /\ written[res.id] # <<>>

\* C15: on a freshly created store a Read of an id of the range that was never
\* written fails with CorruptSlot and adds one miss.
C15_UnwrittenReadsCorrupt ==
    [][(/\ status = "open"
        /\ prevRet.kind = "fresh"
        /\ ops' = ops + 1
        /\ res'.op = "Read"
        /\ res'.id >= cfgFile.MinIDAlloc
        /\ res'.id <= cfgFile.MaxIDAlloc
        /\ written[res'.id] = <<>>)
       => /\ res'.err = "CorruptSlot"
          /\ res'.val = <<>>
          /\ statMisses' = statMisses + 1]_vars

\* C16: BulkWrite rejects a request as out of range exactly when startID < 1
\* or startID + len - 1 > MaxID.
C16_BulkRangeCheck ==
    (res.op = "BulkWrite" /\ status = "open")
        => (res.err = "OutOfRange"
              <=> (res.id < 1 \/ res.id + Len(res.val) - 1 > cfgFile.MaxIDAlloc))

\* C18: while the store is open every shard file is exactly
\* slot_count * (record_size + 4) bytes long.
C18_ShardFileLength ==
    status = "open"
        => \A k \in 1..Len(c.shards) :
               Len(files[c.shards[k].path]) = c.shards[k].size * c.diskRec

\* The slots of the shards before shard k.
RECURSIVE SlotsBefore(_, _)
SlotsBefore(shards, k) ==
    IF k <= 1 THEN 0 ELSE SlotsBefore(shards, k - 1) + shards[k - 1].size

\* C17: the constructor gives every shard a non-negative slot count, every
\* shard but the last ceil(N / shard_count) slots, N slots in all, and each
\* shard the offset that is the sum of the counts before it.
C17_ShardSlotCounts ==
    status = "open"
        => LET n == Len(c.shards)
               per == (RingSize + cfgFile.ShardCount - 1) \div cfgFile.ShardCount
           IN  /\ n = cfgFile.ShardCount
               /\ \A k \in 1..n :
                      /\ c.shards[k].size >= 0
                      /\ k < n => c.shards[k].size = per
                      /\ c.shards[k].offset = SlotsBefore(c.shards, k)
               /\ SlotsBefore(c.shards, n + 1) = RingSize

\* C17 witness: four slots in three shards, the last shard left with none.
C17_Witness ==
    /\ status = "open"
    /\ RingSize = 4
    /\ Len(c.shards) = 3
    /\ c.shards[2].size = 2
    /\ c.shards[3].size = 0
    /\ c.shards[3].offset = 4

\* C19: findShard maps every position of 1..N to the one shard whose interval
\* holds it and to the slot rel - offset of 1..slot_count, and fails with
\* OutOfRange for every other position.
C19_RouterTotal ==
    (status = "open" /\ res.op = "findShard")
        => LET holders == {k \in 1..Len(c.shards) :
                              /\ c.shards[k].offset < res.id
                              /\ res.id <= c.shards[k].offset + c.shards[k].size}
           IN  IF res.id >= 1 /\ res.id <= RingSize
               THEN /\ Cardinality(holders) = 1
                    /\ res.err = "ok"
                    /\ res.acc.shard \in holders
                    /\ res.acc.slot = res.id - c.shards[res.acc.shard].offset
                    /\ res.acc.slot >= 1
                    /\ res.acc.slot <= c.shards[res.acc.shard].size
               ELSE res.err = "OutOfRange"

\* C19 witness: the last position of a ring of four slots in two shards is
\* slot 2 of shard 2.
C19_Witness ==
    /\ status = "open"
    /\ res.op = "findShard"
    /\ res.err = "ok"
    /\ res.id = RingSize
    /\ res.acc.shard = 2
    /\ res.acc.slot = 2

\* C13: an open store has the size, record size, shard count, id range, slot
\* size, shard slot counts and shard file lengths of the persisted .cfg,
\* whatever options the caller passed.
C13_PersistedLayoutRules ==
    (status = "open" /\ res.op = "Open")
        => LET diskRec == cfgFile.RecordSize + 4
               per == shardSizeOf(RingSize, cfgFile.ShardCount)
           IN  /\ c.size = RingSize
               /\ c.record = cfgFile.RecordSize
               /\ c.diskRec = diskRec
               /\ Len(c.shards) = cfgFile.ShardCount
               /\ c.minIDAlloc = cfgFile.MinIDAlloc
               /\ c.maxIDAlloc = cfgFile.MaxIDAlloc
               /\ \A k \in 1..Len(c.shards) :
                      /\ c.shards[k].size =
                             IF k < Len(c.shards) THEN per
                             ELSE RingSize - (k - 1) * per
                      /\ Len(files[c.shards[k].path]) = c.shards[k].size * diskRec

\* C12: a Read that began after a Write to its id had returned success returns
\* the payload of the last such Write or of a Write to the id that overlaps
\* the Read; it does not fail.
C12_ReadAfterWrite ==
    \A p \in Procs :
        (procs[p].op = "Read" /\ procs[p].pc = "idle" /\ procs[p].pre)
            => (procs[p].err = "ok" /\ procs[p].val \in procs[p].allowed)

\* C12 witness: a Read that began after one Write had returned and ran
\* alongside another Write of a different payload has returned.
C12_Witness ==
    \E p \in Procs :
        /\ procs[p].op = "Read"
        /\ procs[p].pc = "idle"
        /\ procs[p].pre
        /\ procs[p].err = "ok"
        /\ Cardinality(procs[p].allowed) = 2
        /\ \E q \in Procs : procs[q].op = "Write" /\ procs[q].pc = "wunlock"
                               /\ procs[q].id = procs[p].id

\* C14: hits is the number of Reads that returned a payload and misses the
\* number that failed with CorruptSlot or IO; a Read rejected as OutOfRange
\* is in neither.
C14_HitMissAccounting ==
    status = "open" => (statHits = tally.ok /\ statMisses = tally.failed)

\* C14 witness: one goroutine's Read returned a payload (a hit) and the
\* other's failed on an I/O error (a miss).
C14_Witness ==
    /\ status = "open"
    /\ statHits = 1
    /\ statMisses = 1
    /\ \A p \in Procs : procs[p].op = "Read" /\ procs[p].pc = "idle"
    /\ \E p, q \in Procs : procs[p].err = "ok" /\ procs[q].err = "IO"

\* The slots a reader may see: zero-filled, or the whole of one write.
WholeSlots == {Zeros(5)} \cup {encodeSlot(pl) : pl \in ConcPayloads}

\* C20: a slot is written only with its stripe held exclusively and read only
\* with the stripe held, and no Read sees a slot that mixes two writes.
C20_SlotMutualExclusion ==
    \A p \in Procs :
        LET l == locks[lockOf(procs[p].id)]
        IN  /\ procs[p].pc \in {"wcrc", "wpayload", "wunlock"}
                => (l.writer = p /\ l.readers = {})
            /\ procs[p].pc \in {"rcopy", "rcheck"}
                => (p \in l.readers /\ l.writer = 0)
            /\ procs[p].pc = "rcheck" => procs[p].buf \in WholeSlots

\* C20 witness: a reader holds the copy of a written slot while a writer to
\* the same id waits for the stripe.
C20_Witness ==
    \E p, q \in Procs :
        /\ procs[p].pc = "rcheck"
        /\ procs[p].buf = encodeSlot(<<200>>)
        /\ procs[q].pc = "wlock"
        /\ procs[q].id = procs[p].id
        /\ procs[q].payload = <<7>>

\* The stripes goroutine p holds, shared or exclusive.
HeldBy(p) == {l \in DOMAIN locks : locks[l].writer = p \/ p \in locks[l].readers}

\* Goroutine p has a step to take.
CanStep(p) ==
    \/ procs[p].pc \in {"wcrc", "wpayload", "wunlock", "rcopy", "rcheck"}
    \/ procs[p].pc = "wlock" /\ canLock(locks[lockOf(procs[p].id)])
    \/ procs[p].pc = "rlock" /\ canRLock(locks[lockOf(procs[p].id)])

\* C21: a goroutine holds at most one stripe, none once its call has returned
\* (with or without an error), and whenever calls are in progress one of them
\* can take a step.
C21_NoDeadlock ==
    /\ \A p \in Procs :
           /\ Cardinality(HeldBy(p)) <= 1
           /\ procs[p].pc \in {"idle", "wlock", "rlock"} => HeldBy(p) = {}
    /\ (\E p \in Procs : procs[p].pc # "idle") => (\E p \in Procs : CanStep(p))

\* C21 witness: a Read returned on its I/O error path and a Write to the same
\* id then took the stripe.
C21_Witness ==
    \E p, q \in Procs :
        /\ procs[p].op = "Read"
        /\ procs[p].pc = "idle"
        /\ procs[p].err = "IO"
        /\ procs[q].pc = "wcrc"
        /\ procs[q].id = procs[p].id

\* C22: a BulkWrite whose range is out of bounds or that holds a payload of
\* the wrong length returns an error and has modified no slot.
C22_BulkWriteValidatesFirst ==
    [][(/\ status = "open"
        /\ ops' = ops + 1
        /\ res'.op = "BulkWrite"
        /\ \/ res'.id < 1
           \/ res'.id + Len(res'.val) - 1 > cfgFile.MaxIDAlloc
           \/ \E i \in 1..Len(res'.val) : Len(res'.val[i]) # c.record)
       => (res'.err # "ok" /\ files' = files)]_vars

\* The first element of a BulkRead(startID, count) whose Read fails (0-based;
\* count when none fails).
FirstFailing(startID, count) ==
    LET failing == {k \in 0..(count - 1) : Read(c, files, startID + k).err # "ok"}
    IN  IF failing = {} THEN count
        ELSE CHOOSE k \in failing : \A j \in failing : k <= j

\* C23: when the Read of element k is the first to fail, BulkRead returns the
\* payloads of the k ids before it, the error of element k, and has counted
\* the Reads of elements 0..k only.
C23_BulkReadPartial ==
    [][(/\ status = "open"
        /\ ops' = ops + 1
        /\ res'.op = "BulkRead"
        /\ res'.err \notin {"ok", "panic"}
        /\ res'.val # <<>>)
       => LET k == FirstFailing(res'.id, Len(res'.val))
              failed == Read(c, files, res'.id + k)
          IN  /\ k < Len(res'.val)
              /\ res'.err = failed.err
              /\ \A i \in 1..k : res'.val[i] = Read(c, files, res'.id + i - 1).val
              /\ \A i \in 1..k : res'.val[i] = written[res'.id + i - 1]
              /\ statHits' = statHits + k
              /\ statMisses' = statMisses + failed.miss]_vars

\* C23 witness: the second element of a BulkRead failed; the list holds the
\* first id's payload and the counters one hit and one miss.
C23_Witness ==
    /\ res.op = "BulkRead"
    /\ res.err = "CorruptSlot"
    /\ Len(res.val) = 2
    /\ res.val[1] = <<7>>
    /\ res.val[2] = <<>>
    /\ statHits = 1
    /\ statMisses = 1

\* C24 as stated: once a WriteHead has wrapped, tail == MinID holds after no
\* later completed WriteHead.
C24_TailNeverMinAgain ==
    (status = "open" /\ wh.pc = "idle" /\ res.op = "WriteHead"
        /\ whCount >= RingSize + 2)
        => tail # cfgFile.MinIDAlloc

\* C24: once a WriteHead has wrapped, the tail keeps following the head: after
\* a later completed WriteHead tail == MinID holds exactly when the head is at
\* MaxID.
C24_NoReturnToUnwrapped ==
    (status = "open" /\ wh.pc = "idle" /\ res.op = "WriteHead"
        /\ whCount >= RingSize + 2)
        => (tail = cfgFile.MinIDAlloc <=> head = cfgFile.MaxIDAlloc)

\* C24 witness: the end of the second lap, the tail at MinID again.
C24_Witness ==
    /\ status = "open"
    /\ wh.pc = "idle"
    /\ res.op = "WriteHead"
    /\ cfgFile.MinIDAlloc = 1
    /\ whCount = 2 * RingSize
    /\ res.id = cfgFile.MaxIDAlloc
    /\ tail = cfgFile.MinIDAlloc

\* C25: from a fresh store the tail is MinID after each of the first N
\* completed WriteHead calls.
C25_UnwrappedPhase ==
    (status = "open" /\ wh.pc = "idle" /\ res.op = "WriteHead" /\ res.err = "ok"
        /\ whCount >= 1 /\ whCount <= RingSize)
        => tail = cfgFile.MinIDAlloc

\* The shards at which a call of the last Flush or Close failed.
FailedShards == {syscalls[k].shard : k \in {j \in DOMAIN syscalls : syscalls[j].failed}}

\* The shards on which the last Flush or Close issued a call named in names.
ShardsCalled(names) ==
    {syscalls[k].shard : k \in {j \in DOMAIN syscalls : syscalls[j].op \in names}}

\* C29: Flush issues a sync and Close a file close (and an unmap, when the
\* store is mapped) on every shard whatever failed before; the error
\* returned is that of the lowest-indexed failing shard, and the result is
\* success when nothing failed.
C29_AllShardsVisited ==
    res.op \in {"Flush", "Close"} =>
        LET all == 0..(cfgFile.ShardCount - 1)
        IN  /\ res.op = "Flush" => ShardsCalled({"msync", "fsync"}) = all
            /\ res.op = "Close" =>
                   /\ ShardsCalled({"close"}) = all
                   /\ ShardsCalled({"munmap"}) \in {{}, all}
            /\ res.err = "ok" <=> FailedShards = {}
            /\ FailedShards # {} =>
                   /\ res.id \in FailedShards
                   /\ \A i \in FailedShards : res.id <= i

\* C29 witness: a Flush of three shards whose first and last syncs fail; the
\* second is still synced and the first shard's error is returned.
C29_Witness ==
    /\ res.op = "Flush"
    /\ res.err = "Sync"
    /\ res.id = 0
    /\ Len(syscalls) = 3
    /\ syscalls[1].failed
    /\ ~syscalls[2].failed
    /\ syscalls[3].failed

\* The goroutines whose WriteHead has fixed its id and not yet returned.
Assigned == {p \in Procs : procs[p].op = "WriteHead"
                           /\ procs[p].pc \in {"hwrapped", "htailed"}}

\* C30: WriteHead calls in progress at the same time, fewer than a lap
\* apart, hold distinct ids of [MinID, MaxID], and when no call is in
\* progress the head is in [MinID, MaxID].
C30_ConcurrentWriteHead ==
    status = "open" =>
        /\ \A p \in Assigned :
               /\ procs[p].id >= cfgFile.MinIDAlloc
               /\ procs[p].id <= cfgFile.MaxIDAlloc
        /\ \A p, q \in Assigned :
               (p # q /\ procs[p].ticket - procs[q].ticket \in 1..(RingSize - 1))
                   => procs[p].id # procs[q].id
        /\ (whCount >= 1 /\ \A p \in Procs : procs[p].pc = "idle") =>
               (head >= cfgFile.MinIDAlloc /\ head <= cfgFile.MaxIDAlloc)

\* C26: a step of a background goroutine changes nothing but the hit/miss
\* counters and the prefetch bookkeeping, so what callers are returned does
\* not depend on PrefetchSize.
C26_PrefetchUnobservable ==
    [][ops' = ops =>
          UNCHANGED <<files, cfgFile, metaFile, dirty, status, c, head, tail, res>>]_vars

\* C27: no two dispatched goroutines are reading the same id.
C27_PrefetchDeduplicated ==
    status = "open" =>
        \A j, k \in DOMAIN bg :
            (j # k /\ bg[j].kind = "fetch" /\ bg[j].pc = "read"
                   /\ bg[k].kind = "fetch" /\ bg[k].pc = "read")
                => bg[j].id # bg[k].id

\* The last id of the shard that holds id.
LastOfShard(id) ==
    LET s == c.shards[findShard(c, absToRel(c, id).rel).idx]
    IN  c.minIDAlloc + s.offset + s.size - 1

\* C28: a goroutine dispatched by the prefetch of a successful Read(id)
\* reads one of the ids id+1 .. id+PrefetchSize of the shard of id.
C28_PrefetchTargets ==
    status = "open" =>
        \A k \in DOMAIN bg :
            bg[k].kind = "fetch" =>
                /\ bg[k].id > bg[k].origin
                /\ bg[k].id <= bg[k].origin + c.options.PrefetchSize
                /\ bg[k].id <= LastOfShard(bg[k].origin)

\* C31: a store closed right after a Flush, with WriteHead calls made, is
\* reopened with the head and the tail it had when Close was called.
C31_ResumeAfterRestart ==
    [][(/\ res.op = "Close"
        /\ res.err = "ok"
        /\ closedHT.flushed
        /\ closedHT.calls >= 1
        /\ res'.op = "Open"
        /\ res'.err = "ok")
           => (head' = closedHT.head /\ tail' = closedHT.tail)]_vars

\* C32: a WriteHead that returns an error of its Write leaves the head and
\* the tail as they were when it was called.
C32_FailedWriteHeadKeepsHead ==
    [][(/\ wh.pc = "tailed"
        /\ wh'.pc = "idle"
        /\ res'.op = "WriteHead"
        /\ res'.err \notin {"ok", "panic"})
           => (head' = wh.head0 /\ tail' = wh.tail0)]_vars

\* The payloads the consumer's Read of the head h it saw may return: that of
\* the WriteHead that set the head to h, or of a later WriteHead at h.
PublishedAt(p) ==
    IF procs[p].pre /\ wh.pc # "idle" /\ whCount = procs[p].ticket
    THEN {wh.payload}
    ELSE {written[procs[p].id]}
             \cup (IF wh.pc # "idle" /\ wh.nextID = procs[p].id
                   THEN {wh.payload} ELSE {})

\* C33: a Read of an observed head h in [MinID, MaxID] succeeds and returns
\* the payload of the WriteHead that set the head to h or of a later one at
\* h.
C33_PublishedHeadReadable ==
    [][(/\ procs[Consumer].pc = "observed"
        /\ procs'[Consumer].pc = "idle"
        /\ status' = "open"
        /\ procs[Consumer].id >= cfgFile.MinIDAlloc
        /\ procs[Consumer].id <= cfgFile.MaxIDAlloc)
           => (/\ procs'[Consumer].err = "ok"
               /\ procs'[Consumer].val \in PublishedAt(Consumer))]_vars

\* The ids of the ring from the tail to the head; none while the head is
\* MinID-1.
Window ==
    IF head = cfgFile.MinIDAlloc - 1 THEN {}
    ELSE IF tail <= head THEN tail..head
    ELSE (tail..cfgFile.MaxIDAlloc) \cup (cfgFile.MinIDAlloc..head)

\* C34: with no WriteHead in progress, on a fresh store that has seen
\* nothing but successful WriteHead calls, every id from the tail to the
\* head has been written and reads back the payload of the last WriteHead
\* that returned it.
C34_WindowReadable ==
    (status = "open" /\ wh.pc = "idle" /\ ops = whCount
        /\ res.op \in {"Open", "WriteHead"} /\ res.err = "ok")
        => \A id \in Window :
               /\ written[id] # <<>>
               /\ Read(c, files, id).err = "ok"
               /\ Read(c, files, id).val = written[id]

\* C35: after a successful BulkWrite with flush set, the shard of every
\* slot it wrote has been synchronized.
C35_BulkWriteDurable ==
    (status = "open" /\ res.op = "BulkWrite" /\ res.err = "ok" /\ bulk.flush
        /\ bulk.start = res.id /\ bulk.payloads = res.val)
        => \A i \in 1..Len(bulk.payloads) :
               LET rel == absToRel(c, bulk.start + i - 1).rel
               IN  c.shards[findShard(c, rel).idx].path \notin dirty

\* What a caller of Read(id) gets from the store with the disk fs.
ReadResult(fs, id) == [err |-> Read(c, fs, id).err, val |-> Read(c, fs, id).val]

\* C36: a successful Write(id, p, flush) leaves the result of Read(j) as it
\* was for every other id j of [MinID, MaxID]; Write and BulkWrite leave the
\* head and the tail as they were.
C36_WriteFrame ==
    [][(status = "open" /\ ops' = ops + 1 /\ status' = "open")
           => /\ (res'.op = "Write" /\ res'.err = "ok") =>
                     \A j \in (cfgFile.MinIDAlloc..cfgFile.MaxIDAlloc) \ {res'.id} :
                         ReadResult(files', j) = ReadResult(files, j)
              /\ res'.op \in {"Write", "BulkWrite"} =>
                     (head' = head /\ tail' = tail)]_vars

\* C37: once the callers have stopped, the background goroutines all end
\* and the prefetch tracking set is empty from then on.
C37_PrefetchQuiesces ==
    <>[](status = "open" => (bg = <<>> /\ prefetchMap = {}))

====
